---------------------------- MODULE Spec2Model ----------------------------
(***************************************************************************)
(* Context compression and long-term memory of ai_group_chat.              *)
(*                                                                         *)
(* The module holds several specifications over one set of variables:     *)
(*   SpecArchive   LongTermMemoryService.archive_incremental, run by two  *)
(*                 workers whose database statements interleave           *)
(*   SpecRetry     archive_incremental by one worker, with failing steps  *)
(*   SpecCompress  ContextCompressor.compress                             *)
(*   SpecProcess   ContextManager.process over a growing conversation     *)
(*   SpecHistory   ChatService._get_history_as_autogen_messages           *)
(*   SpecTurn      ChatService.start_discussion                           *)
(*   SpecRetrieve  LongTermMemoryService retrieval scoring and budget     *)
(*   SpecSearch    archival into and retrieval from the store, by scope   *)
(*   SpecMirror    MemoryGateway.add_memories with an external provider   *)
(*   SpecClassify  MessageClassifier.classify_batch_async                   *)
(*   SpecScore     ValueScorer.score_messages as time passes                *)
(*   SpecCount     ContextManager.count_messages_tokens                     *)
(*   SpecCursor    archive_incremental over messages with uuid ids         *)
(*   SpecForced    forced archive runs that keep occurring                 *)
(*   SpecExamine   MemoryExtractor.extract on the batch of a run           *)
(*   SpecShared    history builds of two conversations, one manager        *)
(*   SpecExclude   stream_discussion and get_context_stats builds          *)
(*   SpecStop      the registry of active discussions                      *)
(*   SpecParity    compress / process and their async variants             *)
(* A specification leaves the variables of the other parts unchanged.     *)
(***************************************************************************)
EXTENDS Integers, Sequences, FiniteSets, TLC

VARIABLES
    messages,       \* messages table of the conversation, in insertion order
    clock,          \* database CURRENT_TIMESTAMP
    memories,       \* long_term_memories table: a set of rows
    checkpoint,     \* memory_checkpoints row of (group, user), or None
    dead_letters,   \* memory_dead_letters table: a set of rows
    audit,          \* memory_audit_logs table: a set of rows
    proc,           \* each archival worker's locals and position
    nextUuid,       \* source of the uuid4() values of memory ids
    dbFaults,       \* number of database statements that raised so far
    archived,       \* history: the ids add_memories first returned for each batch
    ctx,            \* the Message list a caller holds and hands to the ContextManager
    now,            \* datetime.now(), in days
    cm,             \* the ContextManager's max_tokens and threshold_tokens
    nextMsg,        \* number of the next message of the conversation in hand
    passes,         \* number of process calls made on the list in hand
    call,           \* history: the call of compress or process that has just returned
    table,          \* messages table of the conversation whose history is built
    snapshots,      \* group_context_snapshots table, in insertion order
    settings,       \* the group's context window and compression_threshold
    builds,         \* number of history builds made
    built,          \* history: the history build that has just returned
    turn,           \* start_discussion: its position, locals and result
    retr,           \* a retrieval: its candidates and settings, then its selection
    srch            \* the MemoryGateway of the process and its last retrieval

archVars == <<messages, clock, memories, checkpoint, dead_letters, audit,
              proc, nextUuid, dbFaults, archived>>

ctxVars == <<ctx, now, cm, nextMsg, passes, call>>

histVars == <<table, snapshots, settings, builds, built>>

vars == <<archVars, ctxVars, histVars, turn, retr, srch>>

\* What the actions of one part leave alone
notArch == <<ctxVars, histVars, turn, retr, srch>>
notCtx == <<archVars, histVars, turn, retr, srch>>
notHist == <<archVars, ctx, nextMsg, passes, call, turn, retr, srch>>
notTurn == <<archVars, ctxVars, histVars, retr, srch>>
notRetr == <<archVars, ctxVars, histVars, turn, srch>>
notSrch == <<messages, clock, checkpoint, dead_letters, proc, dbFaults, archived,
             ctxVars, histVars, turn, retr>>

-----------------------------------------------------------------------------
(* Bounds of the model *)

MaxMsgs == 4
MaxRuns == 2
MaxFaults == 4
MaxLen == 4
MaxAppends == 6
MaxDays == 2
MaxPasses == 2
MaxBuilds == 2
MaxTurns == 2
MaxCands == 3
MaxStore == 2
MaxSearches == 2

(* Program constants *)

ARCHIVE_BATCH_LIMIT == 300
ARCHIVE_THRESHOLD == 10
MAX_RETRIES == 3
\* ContextManager defaults; ratios are in percent
DEFAULT_MAX_TOKENS == 128000
DEFAULT_THRESHOLD_RATIO == 80
\* ValueThresholds and the scorer's weights; scores are in ten-thousandths
HIGH == 50000
MEDIUM == 20000
WEIGHT_USER == 100000
WEIGHT_STATUS == 70000
WEIGHT_FAILURE == 50000
WEIGHT_REASONING == 20000
WEIGHT_NORMAL == 30000
\* compress(messages, keep_recent=5)
KEEP_RECENT == 5

\* A NULL text column.
NULL == "NULL"
\* An absent row or id is the empty sequence, a present one x is <<x>>.
None == <<>>
Some(x) == <<x>>
Procs == {"w1", "w2"}
UserId == "u1"
GroupId == "g1"

-----------------------------------------------------------------------------
(* Text.  A text is a sequence of one-character strings. *)

IsSpace(ch) == ch = " "

Lower(ch) ==
    CASE ch = "A" -> "a" [] ch = "B" -> "b" [] ch = "C" -> "c"
      [] ch = "D" -> "d" [] ch = "E" -> "e" [] ch = "F" -> "f"
      [] ch = "I" -> "i" [] OTHER -> ch

RECURSIVE LStrip(_)
LStrip(s) == IF s # <<>> /\ IsSpace(Head(s)) THEN LStrip(Tail(s)) ELSE s

RECURSIVE RStrip(_)
RStrip(s) ==
    IF s # <<>> /\ IsSpace(s[Len(s)]) THEN RStrip(SubSeq(s, 1, Len(s) - 1)) ELSE s

\* str.strip()
Strip(s) == RStrip(LStrip(s))

\* str.split(): the words between runs of whitespace
RECURSIVE SplitFrom(_, _, _)
SplitFrom(s, cur, acc) ==
    IF s = <<>> THEN (IF cur = <<>> THEN acc ELSE Append(acc, cur))
    ELSE IF IsSpace(Head(s))
         THEN SplitFrom(Tail(s), <<>>, IF cur = <<>> THEN acc ELSE Append(acc, cur))
         ELSE SplitFrom(Tail(s), Append(cur, Head(s)), acc)

Split(s) == SplitFrom(s, <<>>, <<>>)

\* " ".join(words)
RECURSIVE JoinSpace(_)
JoinSpace(ws) ==
    IF ws = <<>> THEN <<>>
    ELSE IF Len(ws) = 1 THEN ws[1]
    ELSE ws[1] \o <<" ">> \o JoinSpace(Tail(ws))

\* str.lower()
LowerText(s) == [i \in 1..Len(s) |-> Lower(s[i])]

\* memory_gateway._normalize_text
NormalizeText(text) == LowerText(JoinSpace(Split(Strip(text))))

\* hashlib.sha256(...).hexdigest(): modelled as injective (no collisions)
Fingerprint(content) == NormalizeText(content)

-----------------------------------------------------------------------------
(* The conversation: messages table *)

Letters == <<"a", "b", "c", "d", "e", "f">>

\* The k-th new statement made in the conversation.
LineText(k) == <<"i", " ", Letters[((k - 1) % Len(Letters)) + 1]>>

\* The first statement said again, in another case and spacing.
RestatedText == <<" ", "I", " ", " ", "A", " ">>

\* A turn is a user message followed by a reply.
RoleOf(k) == IF k % 2 = 1 THEN "user" ELSE "assistant"

NewMessage(k, role, content, at) ==
    [id |-> k, created_at |-> at, role |-> role, content |-> content,
     sender_name |-> IF role = "user" THEN "User" ELSE "Bot",
     is_compressed |-> FALSE]

\* MessageDAO.save: a new statement of the conversation
SaveMessage ==
    /\ Len(messages) < MaxMsgs
    /\ LET k == Len(messages) + 1 IN
       messages' = Append(messages,
                          NewMessage(k, RoleOf(k), LineText(k), clock + 1))
    /\ clock' = clock + 1
    /\ UNCHANGED <<memories, checkpoint, dead_letters, audit, proc, nextUuid,
                   dbFaults, archived>>
    /\ UNCHANGED notArch

\* MessageDAO.save: the user restates the first statement
RestateMessage ==
    /\ Len(messages) < MaxMsgs
    /\ Len(messages) >= 1
    /\ LET k == Len(messages) + 1 IN
       messages' = Append(messages,
                          NewMessage(k, "user", RestatedText, clock + 1))
    /\ clock' = clock + 1
    /\ UNCHANGED <<memories, checkpoint, dead_letters, audit, proc, nextUuid,
                   dbFaults, archived>>
    /\ UNCHANGED notArch

\* ORDER BY created_at ASC, id ASC
CursorLess(a, b) ==
    \/ a.created_at < b.created_at
    \/ (a.created_at = b.created_at /\ a.id < b.id)

RECURSIVE SortByCursor(_)
SortByCursor(S) ==
    IF S = {} THEN <<>>
    ELSE LET m == CHOOSE x \in S : \A y \in S \ {x} : CursorLess(x, y)
         IN <<m>> \o SortByCursor(S \ {m})

FirstN(s, n) == IF Len(s) <= n THEN s ELSE SubSeq(s, 1, n)

RangeOf(s) == {s[i] : i \in 1..Len(s)}

\* A query that leaves out the WHERE clause of the cursor
MessagesFromStart(log, cp, limit) == FirstN(SortByCursor(RangeOf(log)), limit)

\* MessageDAO.get_messages_since_cursor
MessagesSinceCursor(log, cp, limit) ==
    LET rows == IF cp = None THEN RangeOf(log)
                ELSE {m \in RangeOf(log) :
                        \/ m.created_at > cp[1].last_message_created_at
                        \/ (m.created_at = cp[1].last_message_created_at
                            /\ m.id > cp[1].last_message_id)}
    IN FirstN(SortByCursor(rows), limit)

-----------------------------------------------------------------------------
(* Extraction and preparation of candidate memories *)

\* An AIMember: of the fields the persona version hashes, thinking is the one
\* that AIMemberUpdate changes here
Member(group_id, thinking) ==
    [id |-> group_id \o ".m1", name |-> "Bot", model_id |-> "model",
     description |-> NULL, task |-> NULL, thinking |-> thinking, temperature |-> "0.7"]

Group ==
    [id |-> GroupId, memory_enabled |-> TRUE, archive_enabled |-> TRUE,
     scope_user_global |-> TRUE, scope_group_local |-> TRUE,
     scope_agent_local |-> TRUE, members |-> <<Member(GroupId, FALSE)>>]

\* LongTermMemoryService._build_persona_versions: the sha1 of the member's
\* configuration string, which stands here for its hash
PersonaVersion(m) ==
    m.id \o "|" \o m.model_id
        \o "|" \o (IF m.description = NULL THEN "" ELSE m.description)
        \o "|" \o (IF m.task = NULL THEN "" ELSE m.task)
        \o "|" \o (IF m.thinking THEN "True" ELSE "False")
        \o "|" \o m.temperature

\* member_name_to_id.get(sender_name or "")
MemberByName(group, sender_name) ==
    LET named == {i \in 1..Len(group.members) : group.members[i].name = sender_name}
    IN IF named = {} THEN None
       ELSE Some(group.members[CHOOSE i \in named : \A j \in named : j <= i])

\* MemoryExtractor.extract: one candidate per statement, user statements as
\* user_global preferences and replies as group_local conclusions, which is what
\* _fallback_extract yields for statements that carry its keywords.
ExtractItem(m) ==
    IF m.role = "user"
    THEN [scope |-> "user_global", memory_type |-> "user_profile",
          content |-> m.content, confidence |-> 80, sender_name |-> m.sender_name]
    ELSE [scope |-> "group_local", memory_type |-> "discussion_asset",
          content |-> m.content, confidence |-> 76, sender_name |-> m.sender_name]

Extract(batch) ==
    LET usable(m) == Strip(m.content) # <<>> /\ m.role \in {"user", "assistant"}
        kept == SelectSeq(batch, usable)
    IN [i \in 1..Len(kept) |-> ExtractItem(kept[i])]

ScopeEnabled(group, scope) ==
    CASE scope = "user_global" -> group.scope_user_global
      [] scope = "group_local" -> group.scope_group_local
      [] scope = "agent_local" -> group.scope_agent_local
      [] OTHER -> TRUE

\* _prepare_memories without the three tests of the scope flags
PrepareMemoriesAnyScope(group, user_id, raw, extracted) ==
    LET ok(item) == /\ Strip(item.content) # <<>>
                    /\ item.confidence >= 55
                    /\ item.scope = "agent_local"
                           => MemberByName(group, item.sender_name) # None
        kept == SelectSeq(extracted, ok)
        last_source == raw[Len(raw)]
    IN [i \in 1..Len(kept) |->
          [scope |-> kept[i].scope,
           memory_type |-> kept[i].memory_type,
           content |-> Strip(kept[i].content),
           confidence |-> kept[i].confidence,
           user_id |-> user_id,
           group_id |-> IF kept[i].scope \in {"group_local", "agent_local"}
                        THEN group.id ELSE NULL,
           member_id |-> IF kept[i].scope = "agent_local"
                         THEN MemberByName(group, kept[i].sender_name)[1].id ELSE NULL,
           persona_version |-> IF kept[i].scope = "agent_local"
                               THEN PersonaVersion(MemberByName(group, kept[i].sender_name)[1])
                               ELSE NULL,
           source_message_id |-> last_source.id,
           expires_at |-> IF kept[i].scope = "group_local" THEN "in180days" ELSE NULL]]

\* LongTermMemoryService._prepare_memories (confidence in hundredths)
PrepareMemories(group, user_id, raw, extracted) ==
    LET ok(item) == /\ Strip(item.content) # <<>>
                    /\ item.confidence >= 55
                    /\ ScopeEnabled(group, item.scope)
                    /\ item.scope = "agent_local"
                           => MemberByName(group, item.sender_name) # None
        kept == SelectSeq(extracted, ok)
        last_source == raw[Len(raw)]
    IN [i \in 1..Len(kept) |->
          [scope |-> kept[i].scope,
           memory_type |-> kept[i].memory_type,
           content |-> Strip(kept[i].content),
           confidence |-> kept[i].confidence,
           user_id |-> user_id,
           group_id |-> IF kept[i].scope \in {"group_local", "agent_local"}
                        THEN group.id ELSE NULL,
           member_id |-> IF kept[i].scope = "agent_local"
                         THEN MemberByName(group, kept[i].sender_name)[1].id ELSE NULL,
           persona_version |-> IF kept[i].scope = "agent_local"
                               THEN PersonaVersion(MemberByName(group, kept[i].sender_name)[1])
                               ELSE NULL,
           source_message_id |-> last_source.id,
           expires_at |-> IF kept[i].scope = "group_local" THEN "in180days" ELSE NULL]]

-----------------------------------------------------------------------------
(* long_term_memories table *)

Coalesce(x) == IF x = NULL THEN "" ELSE x

\* The columns of idx_ltm_fingerprint_scope
ScopeKey(r) ==
    <<r.scope, r.user_id, Coalesce(r.group_id), Coalesce(r.member_id),
      Coalesce(r.persona_version), r.fingerprint>>

\* MemoryGateway.add_memories: the record handed to upsert_memory
WithFingerprint(memory) ==
    [scope |-> memory.scope, memory_type |-> memory.memory_type,
     content |-> memory.content, confidence |-> memory.confidence,
     user_id |-> memory.user_id, group_id |-> memory.group_id,
     member_id |-> memory.member_id, persona_version |-> memory.persona_version,
     source_message_id |-> memory.source_message_id,
     expires_at |-> memory.expires_at,
     fingerprint |-> Fingerprint(Strip(memory.content)),
     embedding |-> None]

\* LongTermMemoryDAO._find_duplicate: the ids of the rows the query matches
FindDuplicate(store, record) ==
    {row.id : row \in {r \in store : ScopeKey(r) = ScopeKey(record)}}

\* A table without the unique index: no insert is rejected
NoUniqueIndex(store, record) == FALSE

\* The unique index idx_ltm_fingerprint_scope rejects the insert of `record`
UniqueViolation(store, record) ==
    \E r \in store : ScopeKey(r) = ScopeKey(record)

\* The columns the INSERT sets (the timestamps are read by retrieval only)
NewRow(record, id) ==
    [id |-> id, scope |-> record.scope, memory_type |-> record.memory_type,
     content |-> record.content, confidence |-> record.confidence,
     user_id |-> record.user_id, group_id |-> record.group_id,
     member_id |-> record.member_id, persona_version |-> record.persona_version,
     source_message_id |-> record.source_message_id,
     expires_at |-> record.expires_at, fingerprint |-> record.fingerprint,
     embedding |-> record.embedding, last_used_at |-> None, decay_score |-> 100,
     is_active |-> TRUE]

\* The columns the UPDATE sets
UpdatedRow(row, record) ==
    [row EXCEPT !.content = record.content, !.confidence = record.confidence,
                !.source_message_id = record.source_message_id,
                !.expires_at = record.expires_at,
                !.embedding = IF record.embedding # None THEN record.embedding ELSE @,
                !.is_active = TRUE]

\* An upsert whose update branch hands back the fresh uuid instead of the row's id.
UpsertWriteFreshId(store, record, dup, new_id) ==
    IF dup # None
    THEN [raised |-> FALSE, id |-> new_id,
          store |-> {IF r.id = dup[1] THEN UpdatedRow(r, record) ELSE r : r \in store}]
    ELSE IF UniqueViolation(store, record)
         THEN [raised |-> TRUE, id |-> 0, store |-> store]
         ELSE [raised |-> FALSE, id |-> new_id,
               store |-> store \cup {NewRow(record, new_id)}]

\* LongTermMemoryDAO.upsert_memory after the duplicate lookup: UPDATE the row
\* found, or INSERT a new one, which the unique index may reject.
UpsertWrite(store, record, dup, new_id) ==
    IF dup # None
    THEN [raised |-> FALSE, id |-> dup[1],
          store |-> {IF r.id = dup[1] THEN UpdatedRow(r, record) ELSE r : r \in store}]
    ELSE IF UniqueViolation(store, record)
         THEN [raised |-> TRUE, id |-> 0, store |-> store]
         ELSE [raised |-> FALSE, id |-> new_id,
               store |-> store \cup {NewRow(record, new_id)}]

-----------------------------------------------------------------------------
(* Tables that only grow: rows with a SERIAL id are kept as a bag *)

AddRow(bag, row) ==
    IF row \in DOMAIN bag THEN [bag EXCEPT ![row] = @ + 1] ELSE bag @@ (row :> 1)

RowCount(bag) ==
    LET RECURSIVE Sum(_)
        Sum(S) == IF S = {} THEN 0
                  ELSE LET r == CHOOSE x \in S : TRUE IN bag[r] + Sum(S \ {r})
    IN Sum(DOMAIN bag)

EmptyBag == <<>>

-----------------------------------------------------------------------------
(* LongTermMemoryService.archive_incremental, one database statement per step *)

IdleWorker ==
    [pc |-> "idle", force |-> FALSE, attempt |-> 0, cp |-> None, batch |-> <<>>,
     prepared |-> <<>>, idx |-> 0, dup |-> None, memory_ids |-> <<>>,
     request_id |-> <<>>, error |-> NULL, runs |-> 0,
     \* history of the run, read only by the properties
     outcome |-> "none", dl0 |-> 0, repeat |-> FALSE, store0 |-> {},
     done |-> {}]

TotalRuns ==
    LET RECURSIVE Sum(_)
        Sum(S) == IF S = {} THEN 0
                  ELSE LET q == CHOOSE x \in S : TRUE IN proc[q].runs + Sum(S \ {q})
    IN Sum(Procs)

BatchIds(w) == [i \in 1..Len(w.batch) |-> w.batch[i].id]

StoreIds == {r.id : r \in memories}

\* The except clause of the retry loop: back off and retry, or go on to the
\* dead-letter write after the last attempt.
HandleException(w, err) ==
    IF w.attempt < MAX_RETRIES
    THEN [w EXCEPT !.attempt = @ + 1, !.pc = "extract"]
    ELSE [w EXCEPT !.pc = "dead_letter", !.error = err]

Return(w, outcome) == [w EXCEPT !.pc = "idle", !.outcome = outcome]

\* archive_incremental is entered, as one of at most max_runs runs: the
\* enabled flags, then get_checkpoint
ArchiveBeginWithin(p, force, max_runs) ==
    /\ proc[p].pc = "idle"
    /\ TotalRuns < max_runs
    /\ LET w0 == [IdleWorker EXCEPT !.runs = proc[p].runs + 1, !.force = force,
                                    !.dl0 = RowCount(dead_letters),
                                    !.done = proc[p].done]
       IN proc' = [proc EXCEPT ![p] =
                     IF ~Group.memory_enabled \/ ~Group.archive_enabled
                     THEN Return(w0, "noop")
                     ELSE [w0 EXCEPT !.cp = checkpoint, !.pc = "fetch"]]
    /\ UNCHANGED <<messages, clock, memories, checkpoint, dead_letters, audit,
                   nextUuid, dbFaults, archived>>
    /\ UNCHANGED notArch

ArchiveBegin(p, force) == ArchiveBeginWithin(p, force, MaxRuns)

\* An early return that looks at the batch only when it is empty
SkipArchiveEmptyOnly(force, raw) == raw = <<>>

\* The early returns of archive_incremental on the fetched batch: nothing raw to
\* archive, or fewer raw messages than the threshold in a run that is not forced
SkipArchive(force, raw) ==
    raw = <<>> \/ (~force /\ Len(raw) < ARCHIVE_THRESHOLD)

\* get_messages_since_cursor with LIMIT limit, the raw filter, the threshold,
\* the archive_start entry
ArchiveFetchLimit(p, limit) ==
    /\ proc[p].pc = "fetch"
    /\ LET w == proc[p]
           fetched == MessagesSinceCursor(messages, w.cp, limit)
           raw == SelectSeq(fetched, LAMBDA m : ~m.is_compressed)
       IN IF SkipArchive(w.force, raw)
          THEN /\ proc' = [proc EXCEPT ![p] = Return(w, "noop")]
               /\ UNCHANGED <<audit, nextUuid>>
          ELSE /\ proc' = [proc EXCEPT ![p] =
                             [w EXCEPT !.batch = raw, !.request_id = <<p, w.runs>>,
                                       !.attempt = 1, !.pc = "extract"]]
               /\ audit' = AddRow(audit, [request_id |-> <<p, w.runs>>,
                                          event_type |-> "archive_start",
                                          memory_ids |-> <<>>])
               /\ UNCHANGED nextUuid
    /\ UNCHANGED <<messages, clock, memories, checkpoint, dead_letters, dbFaults,
                   archived>>
    /\ UNCHANGED notArch

ArchiveFetch(p) == ArchiveFetchLimit(p, ARCHIVE_BATCH_LIMIT)

NoteArchived(w, ids) ==
    IF \E a \in archived : a.batch = BatchIds(w) THEN archived
    ELSE archived \cup {[batch |-> BatchIds(w), ids |-> ids]}

\* extractor.extract and _prepare_memories; add_memories starts
ArchiveExtract(p) ==
    /\ proc[p].pc = "extract"
    /\ LET w == proc[p]
           prepared == PrepareMemories(Group, UserId, w.batch, Extract(w.batch))
           w1 == [w EXCEPT !.prepared = prepared, !.memory_ids = <<>>, !.idx = 1,
                           !.dup = None,
                           !.repeat = \E a \in archived : a.batch = BatchIds(w),
                           !.store0 = StoreIds]
       IN IF prepared = <<>>
          THEN /\ proc' = [proc EXCEPT ![p] = [w1 EXCEPT !.pc = "checkpoint"]]
               /\ archived' = NoteArchived(w, <<>>)
          ELSE /\ proc' = [proc EXCEPT ![p] = [w1 EXCEPT !.pc = "find"]]
               /\ UNCHANGED archived
    /\ UNCHANGED <<messages, clock, memories, checkpoint, dead_letters, audit,
                   nextUuid, dbFaults>>
    /\ UNCHANGED notArch

\* upsert_memory: the SELECT of _find_duplicate (LIMIT 1)
ArchiveFindDuplicate(p) ==
    /\ proc[p].pc = "find"
    /\ \E w \in {proc[p]} :
       \E record \in {WithFingerprint(w.prepared[w.idx])} :
       \E found \in {FindDuplicate(memories, record)} :
       \E d \in (IF found = {} THEN {None} ELSE {Some(id) : id \in found}) :
            proc' = [proc EXCEPT ![p] = [w EXCEPT !.dup = d, !.pc = "write"]]
    /\ UNCHANGED <<messages, clock, memories, checkpoint, dead_letters, audit,
                   nextUuid, dbFaults, archived>>
    /\ UNCHANGED notArch

\* upsert_memory: the UPDATE or the INSERT
ArchiveWrite(p) ==
    /\ proc[p].pc = "write"
    /\ \E w \in {proc[p]} :
       \E record \in {WithFingerprint(w.prepared[w.idx])} :
       \E res \in {UpsertWrite(memories, record, w.dup, nextUuid)} :
       \E ids \in {Append(w.memory_ids, res.id)} :
          IF res.raised
          THEN /\ proc' = [proc EXCEPT ![p] = HandleException(w, "unique_violation")]
               /\ UNCHANGED <<memories, nextUuid, archived>>
          ELSE /\ memories' = res.store
               /\ nextUuid' = IF res.id = nextUuid THEN nextUuid + 1 ELSE nextUuid
               /\ IF w.idx < Len(w.prepared)
                  THEN /\ proc' = [proc EXCEPT ![p] =
                                     [w EXCEPT !.memory_ids = ids, !.idx = @ + 1,
                                               !.dup = None, !.pc = "find"]]
                       /\ UNCHANGED archived
                  ELSE /\ proc' = [proc EXCEPT ![p] =
                                     [w EXCEPT !.memory_ids = ids, !.dup = None,
                                               !.pc = "checkpoint"]]
                       /\ archived' = NoteArchived(w, ids)
    /\ UNCHANGED <<messages, clock, checkpoint, dead_letters, audit, dbFaults>>
    /\ UNCHANGED notArch

\* The row upsert_checkpoint writes: the last message of the batch
CheckpointAfter(w) ==
    LET last_msg == w.batch[Len(w.batch)]
    IN Some([last_message_id |-> last_msg.id,
             last_message_created_at |-> last_msg.created_at])

\* upsert_checkpoint
ArchiveCheckpoint(p) ==
    /\ proc[p].pc = "checkpoint"
    /\ checkpoint' = CheckpointAfter(proc[p])
    /\ proc' = [proc EXCEPT ![p] = [@ EXCEPT !.pc = "audit"]]
    /\ UNCHANGED <<messages, clock, memories, dead_letters, audit, nextUuid,
                   dbFaults, archived>>
    /\ UNCHANGED notArch

\* add_audit_log(archive_success) and return
ArchiveAuditSuccess(p) ==
    /\ proc[p].pc = "audit"
    /\ audit' = AddRow(audit, [request_id |-> proc[p].request_id,
                               event_type |-> "archive_success",
                               memory_ids |-> proc[p].memory_ids])
    /\ proc' = [proc EXCEPT ![p] =
                  Return([@ EXCEPT !.done = @ \cup RangeOf(BatchIds(proc[p]))],
                         "success")]
    /\ UNCHANGED <<messages, clock, memories, checkpoint, dead_letters, nextUuid,
                   dbFaults, archived>>
    /\ UNCHANGED notArch

\* add_dead_letter after the last attempt failed
ArchiveDeadLetter(p) ==
    /\ proc[p].pc = "dead_letter"
    /\ dead_letters' = AddRow(dead_letters,
                              [group_id |-> GroupId, user_id |-> UserId,
                               error |-> proc[p].error,
                               checkpoint |-> proc[p].cp,
                               message_count |-> Len(proc[p].batch),
                               retry_count |-> proc[p].attempt])
    /\ proc' = [proc EXCEPT ![p] = [@ EXCEPT !.pc = "audit_failed"]]
    /\ UNCHANGED <<messages, clock, memories, checkpoint, audit, nextUuid,
                   dbFaults, archived>>
    /\ UNCHANGED notArch

\* add_audit_log(archive_failed)
ArchiveAuditFailed(p) ==
    /\ proc[p].pc = "audit_failed"
    /\ audit' = AddRow(audit, [request_id |-> proc[p].request_id,
                               event_type |-> "archive_failed",
                               memory_ids |-> <<>>])
    /\ proc' = [proc EXCEPT ![p] = Return(@, "failed")]
    /\ UNCHANGED <<messages, clock, memories, checkpoint, dead_letters, nextUuid,
                   dbFaults, archived>>
    /\ UNCHANGED notArch

\* The database statement the worker is about to run raises (Database.execute
\* re-raises, fetch_one and fetch_all let the error through).  Inside the retry
\* loop the except clause takes it; before the loop and inside the except clause
\* it leaves archive_incremental.
ArchiveRaise(p) ==
    /\ dbFaults < MaxFaults
    /\ proc[p].pc \in {"fetch", "find", "write", "checkpoint", "audit",
                       "dead_letter", "audit_failed"}
    /\ dbFaults' = dbFaults + 1
    /\ proc' = [proc EXCEPT ![p] =
                  IF @.pc \in {"find", "write", "checkpoint", "audit"}
                  THEN HandleException(@, "db_error")
                  ELSE Return(@, "aborted")]
    /\ UNCHANGED <<messages, clock, memories, checkpoint, dead_letters, audit,
                   nextUuid, archived>>
    /\ UNCHANGED notArch

\* ContextManager.__init__
NewManager(max_tokens, threshold_ratio) ==
    [max_tokens |-> max_tokens, threshold_ratio |-> threshold_ratio,
     threshold_tokens |-> (max_tokens * threshold_ratio) \div 100]

\* The ContextManager as constructed, with no Message list in hand
CtxIdle ==
    /\ ctx = <<>>
    /\ now = 0
    /\ cm = NewManager(DEFAULT_MAX_TOKENS, DEFAULT_THRESHOLD_RATIO)
    /\ nextMsg = 1
    /\ passes = 0
    /\ call = [op |-> "none"]

\* The database as created and both archival workers idle
ArchIdle ==
    /\ messages = <<>>
    /\ clock = 0
    /\ memories = {}
    /\ checkpoint = None
    /\ dead_letters = EmptyBag
    /\ audit = EmptyBag
    /\ proc = [p \in Procs |-> IdleWorker]
    /\ nextUuid = 1
    /\ dbFaults = 0
    /\ archived = {}

\* No conversation whose history is built
HistIdle ==
    /\ table = <<>>
    /\ snapshots = <<>>
    /\ settings = [window |-> DEFAULT_MAX_TOKENS,
                   compression_threshold |-> DEFAULT_THRESHOLD_RATIO]
    /\ builds = 0
    /\ built = [op |-> "none"]

\* No turn under way
IdleTurn ==
    [pc |-> "idle", n |-> 0, mode |-> "free", attempt |-> 0, faults |-> 0,
     absorbed |-> {}, context |-> "none", block |-> "none",
     outcome |-> "none", cause |-> "none"]

\* MemoryGateway.__init__: the vector capability of the process
NewGateway(enabled, vector_available) ==
    [enabled |-> enabled, vector_available |-> vector_available,
     vector_enabled |-> enabled /\ vector_available]

\* A process without vector settings, and no retrieval made
SrchIdle ==
    srch = [gw |-> NewGateway(FALSE, FALSE), collaborator |-> "works",
            retrievals |-> 0, last |-> [op |-> "none"]]

\* No turn and no retrieval
RestIdle ==
    /\ turn = IdleTurn
    /\ retr = [op |-> "none"]
    /\ SrchIdle

InitArchive == ArchIdle /\ CtxIdle /\ HistIdle /\ RestIdle

\* Two workers run _schedule_memory_archive's forced archival; no statement
\* fails other than by the unique index.  The worker named first starts first.
NextArchive ==
    \/ SaveMessage
    \/ RestateMessage
    \/ \E p \in Procs :
         \/ (ArchiveBegin(p, TRUE) /\ (p = "w1" \/ proc["w1"].runs > 0))
         \/ ArchiveFetch(p)
         \/ ArchiveExtract(p)
         \/ ArchiveFindDuplicate(p)
         \/ ArchiveWrite(p)
         \/ ArchiveCheckpoint(p)
         \/ ArchiveAuditSuccess(p)
         \/ ArchiveDeadLetter(p)
         \/ ArchiveAuditFailed(p)

SpecArchive == InitArchive /\ [][NextArchive]_vars

\* One worker runs archive_incremental time after time, forced or not, and its
\* database statements may raise.
NextRetry ==
    \/ SaveMessage
    \/ RestateMessage
    \/ \E force \in BOOLEAN : ArchiveBegin("w1", force)
    \/ ArchiveFetch("w1")
    \/ ArchiveExtract("w1")
    \/ ArchiveFindDuplicate("w1")
    \/ ArchiveWrite("w1")
    \/ ArchiveCheckpoint("w1")
    \/ ArchiveAuditSuccess("w1")
    \/ ArchiveDeadLetter("w1")
    \/ ArchiveAuditFailed("w1")
    \/ ArchiveRaise("w1")

SpecRetry == InitArchive /\ [][NextRetry]_vars

\* Bound: the messages of a log whose ids are drawn as uuids
MaxLog == 3

\* MessageDAO.save between two runs: the id is str(uuid4()), any id not in
\* the table, and created_at is CURRENT_TIMESTAMP, which may be the timestamp
\* of the message saved before
SaveWithUuid(id, same_time) ==
    /\ proc["w1"].pc = "idle"
    /\ Len(messages) < MaxLog
    /\ \A i \in 1..Len(messages) : messages[i].id # id
    /\ same_time => Len(messages) >= 1
    /\ LET k == Len(messages) + 1
           at == IF same_time THEN clock ELSE clock + 1
       IN /\ messages' = Append(messages, NewMessage(id, RoleOf(k), LineText(k), at))
          /\ clock' = at
    /\ UNCHANGED <<memories, checkpoint, dead_letters, audit, proc, nextUuid,
                   dbFaults, archived>>
    /\ UNCHANGED notArch

\* Runs of one worker, one after the other and without a failing statement,
\* over a log that grows between the runs
NextCursor ==
    \/ \E id \in 1..MaxLog, same_time \in BOOLEAN : SaveWithUuid(id, same_time)
    \/ \E force \in BOOLEAN : ArchiveBegin("w1", force)
    \/ ArchiveFetch("w1")
    \/ ArchiveExtract("w1")
    \/ ArchiveFindDuplicate("w1")
    \/ ArchiveWrite("w1")
    \/ ArchiveCheckpoint("w1")
    \/ ArchiveAuditSuccess("w1")

SpecCursor == InitArchive /\ [][NextCursor]_vars

\* Bounds of the forced runs: the batch limit scaled down from 300 so that a
\* log of MaxMsgs rows holds a full batch of compressed rows, and as many runs
\* as the log has messages
ScaledBatchLimit == 2
ForcedRuns == 4

\* MessageDAO.update_compression(message_id, is_compressed = True, ...)
UpdateCompression(i) ==
    /\ proc["w1"].pc = "idle"
    /\ i \in 1..Len(messages)
    /\ ~messages[i].is_compressed
    /\ messages' = [messages EXCEPT ![i].is_compressed = TRUE]
    /\ UNCHANGED <<clock, memories, checkpoint, dead_letters, audit, proc, nextUuid,
                   dbFaults, archived>>
    /\ UNCHANGED notArch

\* The steps of a forced run of worker w1 in which no statement fails
ForcedRun ==
    \/ ArchiveBeginWithin("w1", TRUE, ForcedRuns)
    \/ ArchiveFetchLimit("w1", ScaledBatchLimit)
    \/ ArchiveExtract("w1")
    \/ ArchiveFindDuplicate("w1")
    \/ ArchiveWrite("w1")
    \/ ArchiveCheckpoint("w1")
    \/ ArchiveAuditSuccess("w1")

NextForced ==
    \/ SaveMessage
    \/ \E i \in 1..MaxMsgs : UpdateCompression(i)
    \/ ForcedRun

\* Forced triggers keep occurring and a run that has begun goes on
SpecForced == InitArchive /\ [][NextForced]_vars /\ WF_vars(ForcedRun)

-----------------------------------------------------------------------------
(* Properties of archival *)

ActiveMemories == {r \in memories : r.is_active}

\* The scope keys of the records a run prepared from its batch
PreparedKeys(w) ==
    {ScopeKey(WithFingerprint(w.prepared[i])) : i \in 1..Len(w.prepared)}

BothRunsOver ==
    \A p \in Procs : proc[p].pc = "idle" /\ proc[p].outcome \in {"success", "failed"}

\* C1: when two archival runs over overlapping batches have both ended, the
\* number of active memory records is the number the two runs leave when one
\* runs after the other: one record per distinct scope key of their candidates.
ConcurrentCountEqualsSerial ==
    (BothRunsOver /\ PreparedKeys(proc["w1"]) \cap PreparedKeys(proc["w2"]) # {})
        => Cardinality(ActiveMemories)
             = Cardinality(PreparedKeys(proc["w1"]) \cup PreparedKeys(proc["w2"]))

\* C2: a run whose three attempts all failed has appended exactly one
\* dead-letter record and left the stored checkpoint at the value it read when
\* it started.
FailedRunKeepsCheckpoint ==
    (proc["w1"].pc = "idle" /\ proc["w1"].outcome = "failed")
        => /\ RowCount(dead_letters) = proc["w1"].dl0 + 1
           /\ checkpoint = proc["w1"].cp

\* C14: no two records of the memory store share scope, user, conversation,
\* member, persona version (each or empty) and fingerprint, whatever the
\* interleaving of the archival writes.
UniqueScopeKeys ==
    \A r1, r2 \in memories : ScopeKey(r1) = ScopeKey(r2) => r1 = r2

\* The index has rejected an insert of a run that lost the race to the other
\* run, and the run is in a later attempt
UniqueScopeKeysWitness ==
    /\ \E p \in Procs : proc[p].attempt >= 2 /\ proc[p].pc = "write"
    /\ Cardinality(memories) >= 2

\* The raw messages ordered at or before the stored checkpoint by (created_at, id)
RawUpToCheckpoint ==
    {m \in RangeOf(messages) :
        /\ ~m.is_compressed
        /\ \/ m.created_at < checkpoint[1].last_message_created_at
           \/ /\ m.created_at = checkpoint[1].last_message_created_at
              /\ m.id <= checkpoint[1].last_message_id}

\* The messages of the batches of the runs that ended in success, and of the
\* runs that have not ended yet
SuccessfullyArchived ==
    UNION {proc[p].done \cup (IF proc[p].pc # "idle"
                              THEN RangeOf(BatchIds(proc[p])) ELSE {}) : p \in Procs}

\* C23: in every interleaving of runs for one conversation and user, when the
\* stored checkpoint is at message m, each raw message ordered at or before m
\* belonged to the batch of a run that completed successfully: a batch may be
\* processed again, no message is skipped.
CheckpointBehindSuccess ==
    checkpoint # None => \A m \in RawUpToCheckpoint : m.id \in SuccessfullyArchived

\* Checkpoint a is at an earlier (timestamp, id) position than checkpoint b;
\* no checkpoint is earlier than every position
CheckpointBefore(a, b) ==
    /\ b # None
    /\ \/ a = None
       \/ a[1].last_message_created_at < b[1].last_message_created_at
       \/ /\ a[1].last_message_created_at = b[1].last_message_created_at
          /\ a[1].last_message_id < b[1].last_message_id

\* Worker p runs upsert_checkpoint in this step
WritesCheckpoint(p) == proc[p].pc = "checkpoint" /\ proc'[p].pc = "audit"

\* C34 as stated: across any interleaving of runs the stored checkpoint never
\* moves to an earlier (timestamp, id) position than one it held before.
CheckpointNeverMovesBack == [][~CheckpointBefore(checkpoint', checkpoint)]_vars

\* C34: every checkpoint a run writes is later than the checkpoint the run
\* read at its start, so the stored checkpoint moves back only by the write of
\* a run that read its checkpoint before the stored one was written.
CheckpointAfterTheOneRead ==
    [][\A p \in Procs :
          WritesCheckpoint(p)
              => /\ CheckpointBefore(proc[p].cp, checkpoint')
                 /\ CheckpointBefore(checkpoint', checkpoint) => proc[p].cp # checkpoint]_vars

\* A run that had read a checkpoint has written a later one
CheckpointAfterTheOneReadWitness ==
    \E p \in Procs :
        /\ proc[p].pc = "audit"
        /\ proc[p].cp # None
        /\ checkpoint = CheckpointAfter(proc[p])

\* Message m is at or before the stored checkpoint
AtOrBeforeCheckpoint(m) ==
    /\ checkpoint # None
    /\ \/ m.created_at < checkpoint[1].last_message_created_at
       \/ /\ m.created_at = checkpoint[1].last_message_created_at
          /\ m.id <= checkpoint[1].last_message_id

AllRawBehindCheckpoint ==
    \A i \in 1..Len(messages) :
        ~messages[i].is_compressed => AtOrBeforeCheckpoint(messages[i])

\* The log is complete and every run is still to come
LogComplete == Len(messages) = MaxMsgs /\ TotalRuns = 0

FewCompressedInARow ==
    \A i \in 1..(Len(messages) - ScaledBatchLimit + 1) :
        \E j \in i..(i + ScaledBatchLimit - 1) : ~messages[j].is_compressed

ForcedRunsReachRawNearby ==
    (LogComplete /\ [](Len(messages) = MaxMsgs => FewCompressedInARow))
        ~> AllRawBehindCheckpoint

\* The archived batches that hold message m
BatchesOf(m, batches) == {a \in batches : m.id \in RangeOf(a.batch)}

\* C33: over runs that each succeed, one after the other, the archived
\* batches are disjoint and consecutive in (timestamp, id) order: when a run
\* has succeeded, every raw message of the log, one saved between runs with
\* the timestamp of the checkpoint message included, is in exactly one batch.
BatchesPartitionLog ==
    [][(proc["w1"].pc = "audit" /\ proc'["w1"].pc = "idle")
          => \A i \in 1..Len(messages') :
                ~messages'[i].is_compressed
                    => Cardinality(BatchesOf(messages'[i], archived')) = 1]_vars

\* The same for logs in which no two messages share a timestamp
BatchesPartitionDistinctTimes ==
    [][(/\ proc["w1"].pc = "audit"
        /\ proc'["w1"].pc = "idle"
        /\ \A i, j \in 1..Len(messages) :
               i # j => messages[i].created_at # messages[j].created_at)
          => \A i \in 1..Len(messages') :
                ~messages'[i].is_compressed
                    => Cardinality(BatchesOf(messages'[i], archived')) = 1]_vars

\* The number of audit entries of a request with one of the event types
AuditCount(request_id, event_types) ==
    LET rows == {r \in DOMAIN audit :
                    r.request_id = request_id /\ r.event_type \in event_types}
        RECURSIVE Sum(_)
        Sum(S) == IF S = {} THEN 0
                  ELSE LET r == CHOOSE x \in S : TRUE IN audit[r] + Sum(S \ {r})
    IN Sum(rows)

\* A run that wrote its archive_start entry and has left archive_incremental
RunOver(p) ==
    /\ proc[p].pc = "idle"
    /\ proc[p].request_id # <<>>
    /\ AuditCount(proc[p].request_id, {"archive_start"}) >= 1

\* What a run that is over has left in the audit log and the dead letters
TerminalEntryOf(p) ==
    /\ AuditCount(proc[p].request_id, {"archive_success", "archive_failed"}) = 1
    /\ proc[p].attempt <= MAX_RETRIES
    /\ AuditCount(proc[p].request_id, {"archive_failed"}) = 1
          <=> RowCount(dead_letters) > proc[p].dl0

\* C24: a run that wrote an archive_start entry writes, within three attempts,
\* exactly one terminal entry under the same request id, archive_success or
\* archive_failed, and archive_failed exactly when it appended a dead letter.
OneTerminalAuditEntry == \A p \in Procs : RunOver(p) => TerminalEntryOf(p)

\* The same for the runs none of whose statements raised in the except clause
OneTerminalEntryUnlessAborted ==
    \A p \in Procs : (RunOver(p) /\ proc[p].outcome # "aborted") => TerminalEntryOf(p)

\* The raw messages after the stored checkpoint
RawAfterCheckpoint ==
    SelectSeq(MessagesSinceCursor(messages, checkpoint, ARCHIVE_BATCH_LIMIT),
              LAMBDA m : ~m.is_compressed)

\* C11: while a run that is not forced is under way with fewer than
\* ARCHIVE_THRESHOLD raw messages after the checkpoint, no step reaches the
\* extraction and no step writes a memory, audit or dead-letter record or
\* changes the checkpoint.
UnforcedSmallBatchWritesNothing ==
    [][(/\ proc["w1"].pc # "idle"
        /\ ~proc["w1"].force
        /\ Len(RawAfterCheckpoint) < ARCHIVE_THRESHOLD)
          => /\ proc'["w1"].pc \in {"idle", "fetch"}
             /\ memories' = memories
             /\ audit' = audit
             /\ dead_letters' = dead_letters
             /\ checkpoint' = checkpoint]_vars

\* A run that is not forced has returned at the threshold: a checkpoint is
\* stored and raw messages lie after it
UnforcedSmallBatchWitness ==
    /\ proc["w1"].pc = "idle"
    /\ proc["w1"].outcome = "noop"
    /\ ~proc["w1"].force
    /\ checkpoint # None
    /\ Len(RawAfterCheckpoint) >= 1

\* add_memories has returned for a batch that was archived before
RepeatArchived(w) == w.pc = "checkpoint" /\ w.repeat

\* C3: when add_memories returns for a batch archived before, it returns the
\* ids it returned the first time and the table holds the ids it held before
\* the call: no row was inserted.
ArchiveTwiceSameIds ==
    RepeatArchived(proc["w1"])
        => /\ \E a \in archived : /\ a.batch = BatchIds(proc["w1"])
                                  /\ a.ids = proc["w1"].memory_ids
           /\ StoreIds = proc["w1"].store0

\* The second archival of a batch has run its upserts through the update branch.
ArchiveTwiceSameIdsWitness ==
    /\ RepeatArchived(proc["w1"])
    /\ Len(proc["w1"].memory_ids) >= 2

-----------------------------------------------------------------------------
(* Message objects of the context.  A content is its kind of wording and its *)
(* token count; created_at and the reference time are in days.              *)

SummaryName == "history_summary"

EmptyText == [kind |-> "empty", tokens |-> 0]

\* len(pattern.findall(content)) for the three keyword patterns
FailureMatches(content) == IF content.kind = "failure" THEN 2 ELSE 0
StatusMatches(content) ==
    IF content.kind \in {"status", "failure_status"} THEN 2 ELSE 0
ReasoningMatches(content) == IF content.kind = "reasoning" THEN 3 ELSE 0

\* MessageClassifier._classify_by_rules
ClassifyByRules(m) ==
    IF m.role = "user" THEN "user"
    ELSE IF FailureMatches(m.content) >= 2 THEN "failure"
    ELSE IF StatusMatches(m.content) >= 2 THEN "status"
    ELSE IF ReasoningMatches(m.content) >= 3 THEN "reasoning"
    ELSE "normal"

MessageTypes == {"user", "status", "failure", "reasoning", "normal"}

\* The replies of the classification model: none that parses in three tries, or
\* one that types every message alike (an index the reply leaves out is typed
\* normal by _parse_response).
ClassifierReplies == {"unparsed"} \cup MessageTypes

\* MessageClassifier.classify_batch_async
ClassifyBatch(msgs, reply) ==
    [i \in 1..Len(msgs) |->
        IF reply = "unparsed" THEN ClassifyByRules(msgs[i]) ELSE reply]

\* MessageClassifier.update_message_types
UpdateMessageTypes(msgs, reply) ==
    LET types == ClassifyBatch(msgs, reply)
    IN [i \in 1..Len(msgs) |-> [msgs[i] EXCEPT !.message_type = types[i]]]

Pow2(n) == 2 ^ n

Max(a, b) == IF a >= b THEN a ELSE b

\* round(x, 4) of x = num / den ten-thousandths, ties to even
RoundHalfEven(num, den) ==
    LET q == num \div den
        r == num % den
    IN IF 2 * r < den THEN q
       ELSE IF 2 * r > den THEN q + 1
       ELSE IF q % 2 = 0 THEN q ELSE q + 1

\* ValueScorer.weights.get(message_type, weights[NORMAL])
Weight(type) ==
    CASE type = "user" -> WEIGHT_USER
      [] type = "status" -> WEIGHT_STATUS
      [] type = "failure" -> WEIGHT_FAILURE
      [] type = "reasoning" -> WEIGHT_REASONING
      [] OTHER -> WEIGHT_NORMAL

\* ValueScorer.calculate_value: weight * 0.5 ^ (hours_elapsed / 24), rounded
CalculateValue(m, reference_time) ==
    LET elapsed == Max(0, reference_time - m.created_at)
    IN RoundHalfEven(Weight(m.message_type), Pow2(elapsed))

\* ValueScorer.score_messages
ScoreMessages(msgs, reference_time) ==
    [i \in 1..Len(msgs) |->
        [msgs[i] EXCEPT !.value_score = Some(CalculateValue(msgs[i], reference_time))]]

\* msg.value_score or 0
ScoreOf(m) == IF m.value_score = None THEN 0 ELSE m.value_score[1]

\* ContextCompressor.triage_messages
HighValue(msgs) == SelectSeq(msgs, LAMBDA m : ScoreOf(m) >= HIGH)
MediumValue(msgs) ==
    SelectSeq(msgs, LAMBDA m : ScoreOf(m) < HIGH /\ ScoreOf(m) >= MEDIUM)
LowValue(msgs) == SelectSeq(msgs, LAMBDA m : ScoreOf(m) < MEDIUM)

\* What summarizer.summarize_sync does: raise, return None, return a text
SummarizerOutcomes ==
    {[raised |-> TRUE, text |-> None],
     [raised |-> FALSE, text |-> None],
     [raised |-> FALSE, text |-> Some(EmptyText)],
     [raised |-> FALSE, text |-> Some([kind |-> "plain", tokens |-> 1])],
     [raised |-> FALSE, text |-> Some([kind |-> "status", tokens |-> 3])]}

\* ContextCompressor.summarize_messages: the summary Message, or None
SummarizeMessages(msgs, outcome) ==
    IF msgs = <<>> THEN None
    ELSE LET summary_text == IF outcome.raised THEN None ELSE outcome.text
         IN IF summary_text = None \/ summary_text = Some(EmptyText) THEN None
            ELSE Some([id |-> <<"summary">> \o msgs[1].id,
                       role |-> msgs[1].role,
                       content |-> summary_text[1],
                       sender_name |-> SummaryName,
                       created_at |-> msgs[1].created_at,
                       message_type |-> "status",
                       is_compressed |-> TRUE,
                       value_score |-> Some(HIGH)])

\* list.sort(key=created_at): stable
RECURSIVE InsertByCreatedAt(_, _)
InsertByCreatedAt(sorted, m) ==
    IF sorted = <<>> THEN <<m>>
    ELSE IF sorted[Len(sorted)].created_at <= m.created_at THEN Append(sorted, m)
    ELSE Append(InsertByCreatedAt(SubSeq(sorted, 1, Len(sorted) - 1), m),
                sorted[Len(sorted)])

\* A compressed list left in the order it was put together
UnsortedByCreatedAt(msgs) == msgs

RECURSIVE SortByCreatedAt(_)
SortByCreatedAt(msgs) ==
    IF msgs = <<>> THEN <<>>
    ELSE InsertByCreatedAt(SortByCreatedAt(SubSeq(msgs, 1, Len(msgs) - 1)),
                           msgs[Len(msgs)])

\* A tail slice that comes one message short.
LastSliceShort(msgs, k) ==
    IF k = 0 THEN msgs
    ELSE SubSeq(msgs, Max(0, Len(msgs) - k) + 2, Len(msgs))

\* messages[-k:] and messages[:-k] of Python, for k >= 0: -0 is 0
LastSlice(msgs, k) ==
    IF k = 0 THEN msgs
    ELSE SubSeq(msgs, Max(0, Len(msgs) - k) + 1, Len(msgs))
ButLastSlice(msgs, k) ==
    IF k = 0 THEN <<>>
    ELSE SubSeq(msgs, 1, Max(0, Len(msgs) - k))

\* A compress that sends the summarizer's failure the way of the low tier.
CompressDropOnFailure(msgs, keep_recent, outcome) ==
    IF Len(msgs) <= keep_recent THEN msgs
    ELSE LET older == ButLastSlice(msgs, keep_recent)
             summary == SummarizeMessages(MediumValue(older), outcome)
         IN SortByCreatedAt(HighValue(older) \o summary) \o LastSlice(msgs, keep_recent)

\* ContextCompressor.compress
Compress(msgs, keep_recent, outcome) ==
    IF Len(msgs) <= keep_recent THEN msgs
    ELSE LET recent_messages == LastSlice(msgs, keep_recent)
             older_messages == ButLastSlice(msgs, keep_recent)
             medium_value == MediumValue(older_messages)
             summary == SummarizeMessages(medium_value, outcome)
             compressed == HighValue(older_messages)
                             \o (IF summary # None THEN summary ELSE medium_value)
         IN SortByCreatedAt(compressed) \o recent_messages

\* ContextManager.count_tokens of a sender name
NameTokens(name) == IF name = SummaryName THEN 6 ELSE 1

\* A count that keeps the content tokens of the newest message only
CountNewestContent(msgs) ==
    IF msgs = <<>> THEN 0
    ELSE LET m == msgs[Len(msgs)]
         IN m.content.tokens
              + (IF m.sender_name # "" THEN NameTokens(m.sender_name) + 4 ELSE 0) + 4

\* ContextManager.count_messages_tokens
RECURSIVE CountMessagesTokens(_)
CountMessagesTokens(msgs) ==
    IF msgs = <<>> THEN 0
    ELSE LET m == msgs[1]
         IN m.content.tokens
              + (IF m.sender_name # "" THEN NameTokens(m.sender_name) + 4 ELSE 0)
              + 4 + CountMessagesTokens(Tail(msgs))

\* ContextManager.should_compress
ShouldCompress(manager, msgs) ==
    CountMessagesTokens(msgs) >= manager.threshold_tokens

\* process without the check of the threshold
ProcessUnchecked(manager, msgs, force, reference_time, reply, outcome) ==
    IF msgs = <<>> THEN msgs
    ELSE Compress(ScoreMessages(UpdateMessageTypes(msgs, reply), reference_time),
                  KEEP_RECENT, outcome)

\* The collaborators process calls: none before its two early returns, then the
\* classifier, the scorer and the compressor, which asks the summarizer when
\* the older part holds a medium tier
ProcessCalls(manager, msgs, force, scored) ==
    IF msgs = <<>> THEN {}
    ELSE IF ~force /\ ~ShouldCompress(manager, msgs) THEN {}
    ELSE {"classifier", "scorer", "compressor"}
           \cup (IF Len(msgs) > KEEP_RECENT
                    /\ MediumValue(ButLastSlice(scored, KEEP_RECENT)) # <<>>
                 THEN {"summarizer"} ELSE {})

\* ContextManager.process / process_async
Process(manager, msgs, force, reference_time, reply, outcome) ==
    IF msgs = <<>> THEN msgs
    ELSE IF ~force /\ ~ShouldCompress(manager, msgs) THEN msgs
    ELSE Compress(ScoreMessages(UpdateMessageTypes(msgs, reply), reference_time),
                  KEEP_RECENT, outcome)

-----------------------------------------------------------------------------
(* ContextCompressor.compress on scored Message lists *)

MsgId(k) == <<"m", k>>

\* A Message as MessageDAO._row_to_message builds it from a row
RowMessage(k, role, content, at) ==
    [id |-> MsgId(k), role |-> role, content |-> content,
     sender_name |-> IF role = "user" THEN "User" ELSE "Bot",
     created_at |-> at, message_type |-> "normal", is_compressed |-> FALSE,
     value_score |-> None]

PlainText == [kind |-> "plain", tokens |-> 1]

\* The scores and timestamps the lists handed to compress are drawn from
ScoreSamples == {None, Some(MEDIUM - 1), Some(MEDIUM), Some(HIGH)}
ScoredShapes == {[created_at |-> t, value_score |-> v] : t \in 0..1, v \in ScoreSamples}

ScoredList(shapes) ==
    [i \in 1..Len(shapes) |->
        [RowMessage(i, "assistant", PlainText, shapes[i].created_at)
            EXCEPT !.value_score = shapes[i].value_score]]

ScoredLists == {ScoredList(f) : f \in UNION {[1..n -> ScoredShapes] : n \in 0..MaxLen}}

CompressCall(keep_recent, outcome) ==
    /\ call.op = "none"
    /\ LET out == Compress(ctx, keep_recent, outcome)
       IN /\ ctx' = out
          /\ call' = [op |-> "compress", input |-> ctx, keep_recent |-> keep_recent,
                      outcome |-> outcome, output |-> out]
    /\ UNCHANGED <<now, cm, nextMsg, passes>>
    /\ UNCHANGED notCtx

InitCompress ==
    /\ ArchIdle
    /\ HistIdle
    /\ RestIdle
    /\ ctx \in ScoredLists
    /\ now = 0
    /\ cm = NewManager(DEFAULT_MAX_TOKENS, DEFAULT_THRESHOLD_RATIO)
    /\ nextMsg = 1
    /\ passes = 0
    /\ call = [op |-> "none"]

NextCompress ==
    \E keep_recent \in 0..(MaxLen + 1), outcome \in SummarizerOutcomes :
        CompressCall(keep_recent, outcome)

SpecCompress == InitCompress /\ [][NextCompress]_vars

\* The last k elements of a sequence (all of it when it is shorter)
LastK(s, k) == SubSeq(s, Max(0, Len(s) - k) + 1, Len(s))

Compressed == call.op = "compress"

\* C4: compress returns a list no longer than its input whose last keep_recent
\* messages are the last keep_recent messages of the input, unmodified and in
\* the input's order.
CompressKeepsRecent ==
    Compressed =>
        /\ Len(call.output) <= Len(call.input)
        /\ LastK(call.output, call.keep_recent) = LastK(call.input, call.keep_recent)

\* compress has dropped or merged older messages and kept a recent tail
CompressKeepsRecentWitness ==
    /\ Compressed
    /\ call.keep_recent >= 2
    /\ Len(call.input) > call.keep_recent
    /\ Len(call.output) < Len(call.input)

SummarizerFailed(outcome) ==
    outcome.raised \/ outcome.text = None \/ outcome.text = Some(EmptyText)

\* The medium tier compress hands to the summarizer
MediumTier(c) == MediumValue(ButLastSlice(c.input, c.keep_recent))

\* C5: when the summarizer raises or returns no text, every medium-tier message
\* is in the output as it was and the output holds no message the input lacks;
\* in every outcome a message scored at or above the medium threshold is in the
\* output, or is of the medium tier and the summary of that tier is in the output.
CompressFailsOpen ==
    Compressed =>
        LET medium == MediumTier(call)
            summary_id == <<"summary">> \o medium[1].id
        IN /\ SummarizerFailed(call.outcome)
                => /\ RangeOf(medium) \subseteq RangeOf(call.output)
                   /\ RangeOf(call.output) \subseteq RangeOf(call.input)
           /\ \A m \in RangeOf(call.input) :
                ScoreOf(m) >= MEDIUM
                    => \/ m \in RangeOf(call.output)
                       \/ /\ m \in RangeOf(medium)
                          /\ \E o \in RangeOf(call.output) :
                                o.id = summary_id /\ o.sender_name = SummaryName

\* the summarizer failed on a medium tier of two messages or more
CompressFailsOpenWitness ==
    /\ Compressed
    /\ SummarizerFailed(call.outcome)
    /\ Len(MediumTier(call)) >= 2

\* The messages of a list that stand before its last k
BeforeLastK(s, k) == SubSeq(s, 1, Max(0, Len(s) - k))

\* What the triage of the messages before the last keep_recent comes to: the
\* low tier is gone, the high tier is there as it was, and at most one message
\* of the output is new
TriageOf(c) ==
    /\ \A m \in RangeOf(BeforeLastK(c.input, c.keep_recent)) :
          /\ ScoreOf(m) < MEDIUM => m \notin RangeOf(c.output)
          /\ ScoreOf(m) >= HIGH => m \in RangeOf(c.output)
    /\ Cardinality(RangeOf(c.output) \ RangeOf(c.input)) <= 1

\* C21: in every compress call, each message outside the last keep_recent that
\* scores below the medium threshold is absent from the output, each one that
\* scores at or above the high threshold is present as it was, and the call
\* creates at most one summary message.
CompressTriage == Compressed => TriageOf(call)

\* The same for the calls that keep at least one recent message
CompressTriageFromOne == (Compressed /\ call.keep_recent >= 1) => TriageOf(call)

\* A list in non-decreasing created_at order
InTimestampOrder(msgs) ==
    \A i, j \in 1..Len(msgs) : i < j => msgs[i].created_at <= msgs[j].created_at

\* C31: when the input of compress is in non-decreasing timestamp order, so is
\* its output, a summary standing at the timestamp of its first source message
\* and the recent tail coming last.
CompressKeepsTimestampOrder ==
    (Compressed /\ InTimestampOrder(call.input))
        => /\ InTimestampOrder(call.output)
           /\ call.keep_recent \in 1..(Len(call.input) - 1)
                 => LastK(call.output, call.keep_recent) = LastK(call.input, call.keep_recent)

\* A summary of an earlier message was moved in front of a later message that
\* was kept as it was
CompressKeepsTimestampOrderWitness ==
    /\ Compressed
    /\ InTimestampOrder(call.input)
    /\ \E i, j \in 1..Len(call.output) :
          /\ i < j
          /\ call.output[i].is_compressed
          /\ ~call.output[j].is_compressed
          /\ call.output[i].created_at < call.output[j].created_at
          /\ j <= Len(call.output) - call.keep_recent

-----------------------------------------------------------------------------
(* ContextManager.process on a conversation that grows and ages *)

StatusText == [kind |-> "status", tokens |-> 3]

\* The messages that join the list: a user's, and a reply that reports a decision
Joining == {[role |-> "user", content |-> PlainText],
            [role |-> "assistant", content |-> StatusText]}

\* A new message of the conversation is loaded into the list
CtxAppend(j) ==
    /\ nextMsg <= MaxAppends
    /\ ctx' = Append(ctx, RowMessage(nextMsg, j.role, j.content, now))
    /\ nextMsg' = nextMsg + 1
    /\ call' = [op |-> "none"]
    /\ UNCHANGED <<now, cm, passes>>
    /\ UNCHANGED notCtx

\* A day passes
Tick ==
    /\ now < MaxDays
    /\ now' = now + 1
    /\ call' = [op |-> "none"]
    /\ UNCHANGED <<ctx, cm, nextMsg, passes>>
    /\ UNCHANGED notCtx

\* ContextManager.process(messages, force) on a list longer than the recent
\* tail: the list in hand becomes the result
\* (ran: force was set or the token count had reached the threshold)
ProcessCall(force, reply, outcome) ==
    /\ passes < MaxPasses
    /\ Len(ctx) > KEEP_RECENT
    /\ passes' = passes + 1
    /\ \E scored \in {ScoreMessages(UpdateMessageTypes(ctx, reply), now)} :
         /\ ctx' = Process(cm, ctx, force, now, reply, outcome)
         /\ call' = [op |-> "process", input |-> ctx,
                     calls |-> ProcessCalls(cm, ctx, force, scored),
                     ran |-> force \/ ShouldCompress(cm, ctx),
                     scored |-> scored,
                     output |-> ctx']
    /\ UNCHANGED <<now, cm, nextMsg>>
    /\ UNCHANGED notCtx

\* The context window and threshold of the conversations modelled
SmallManager == NewManager(80, 80)

InitProcess ==
    /\ ArchIdle
    /\ HistIdle
    /\ RestIdle
    /\ ctx = <<>>
    /\ now = 0
    /\ cm = SmallManager
    /\ nextMsg = 1
    /\ passes = 0
    /\ call = [op |-> "none"]

NextProcess ==
    \/ \E j \in Joining : CtxAppend(j)
    \/ Tick
    \/ \E force \in BOOLEAN, reply \in ClassifierReplies,
          outcome \in SummarizerOutcomes : ProcessCall(force, reply, outcome)

SpecProcess == InitProcess /\ [][NextProcess]_vars

IsSummary(m) == m.is_compressed /\ m.sender_name = SummaryName

\* C6: when process has classified, scored and compressed a list, no summary
\* message that stood before the recent tail of that list is lost: it is in the
\* result, or it was scored into the summarized tier and that tier's summary is
\* in the result.
SummaryKeptByLaterPass ==
    (call.op = "process" /\ call.ran)
        => \A i \in 1..(Len(call.input) - KEEP_RECENT) :
              IsSummary(call.input[i])
                  => \/ \E k \in 1..Len(call.output) :
                          call.output[k].id = call.input[i].id
                     \/ /\ ScoreOf(call.scored[i]) >= MEDIUM
                        /\ \E k \in 1..Len(call.output) :
                              /\ IsSummary(call.output[k])
                              /\ call.output[k] \notin RangeOf(call.input)

\* C22: in every context list that a sequence of compression passes produces,
\* a message with is_compressed set has the type status and an id derived from
\* the id of the first message it replaced.
CompressedIsStatus ==
    \A i \in 1..Len(ctx) :
        ctx[i].is_compressed
            => /\ ctx[i].message_type = "status"
               /\ Head(ctx[i].id) = "summary"

\* After any chain of passes and appends the list is in timestamp order
ContextInTimestampOrder == InTimestampOrder(ctx)

\* C18: with force false and the token count of the list under the threshold,
\* process returns the list it was given, calls neither the classifier nor the
\* summarizer, and leaves message types and value scores as they were.
UnforcedBelowThresholdIsNoOp ==
    (/\ call.op = "process"
     /\ ~call.ran
     /\ CountMessagesTokens(call.input) < cm.threshold_tokens)
        => /\ call.output = call.input
           /\ call.calls = {}
           /\ \A i \in 1..Len(call.input) :
                 /\ call.output[i].message_type = call.input[i].message_type
                 /\ call.output[i].value_score = call.input[i].value_score

\* An unforced call under the threshold on a list longer than the recent tail
\* that an earlier pass has typed and scored
UnforcedBelowThresholdWitness ==
    /\ call.op = "process"
    /\ ~call.ran
    /\ CountMessagesTokens(call.input) < cm.threshold_tokens
    /\ Len(call.input) > KEEP_RECENT
    /\ \E i \in 1..Len(call.input) : call.input[i].value_score # None

-----------------------------------------------------------------------------
(* ChatService._get_history_as_autogen_messages *)

\* MessageDAO.save of the next message of the conversation, a user's or the
\* reply to it; created_at is the day
HistSave ==
    /\ Len(table) < MaxAppends
    /\ LET k == Len(table) + 1
       IN table' = Append(table,
                          RowMessage(k, RoleOf(k),
                                     IF RoleOf(k) = "user" THEN PlainText
                                     ELSE StatusText, now))
    /\ built' = [op |-> "none"]
    /\ UNCHANGED <<snapshots, settings, builds, cm, now>>
    /\ UNCHANGED notHist

\* A day passes for the conversation
HistTick ==
    /\ now < MaxDays
    /\ now' = now + 1
    /\ built' = [op |-> "none"]
    /\ UNCHANGED <<table, snapshots, settings, builds, cm>>
    /\ UNCHANGED notHist

\* MessageDAO.get_by_group(limit=0): ORDER BY created_at ASC
GetByGroup(tbl) == SortByCreatedAt(tbl)

\* MessageDAO.get_messages_after
GetMessagesAfter(tbl, last_message_id) ==
    LET last_msg == SelectSeq(tbl, LAMBDA m : m.id = last_message_id)
    IN IF last_msg = <<>> THEN GetByGroup(tbl)
       ELSE SelectSeq(GetByGroup(tbl),
                      LAMBDA m : m.created_at > last_msg[1].created_at)

\* ContextSnapshotDAO.get_latest: ORDER BY created_at DESC LIMIT 1, any of the
\* newest rows when several share the timestamp
LatestSnapshots(snaps) ==
    {x \in RangeOf(snaps) : \A y \in RangeOf(snaps) : y.created_at <= x.created_at}

\* msg.model_dump(mode='json'): the timestamp as an ISO string, the score as a
\* JSON number or null
MessageDump(m) ==
    [m EXCEPT !.created_at = <<"iso", m.created_at>>,
              !.value_score = IF m.value_score = None THEN <<"null">>
                              ELSE <<"number", m.value_score[1]>>]

\* Message.model_validate(item)
MessageValidate(item) ==
    [item EXCEPT !.created_at = item.created_at[2],
                 !.value_score = IF item.value_score = <<"null">> THEN None
                                 ELSE Some(item.value_score[2])]

\* set_max_tokens and the threshold the handler applies from the group
ManagerFor(group_settings) ==
    NewManager(group_settings.window, group_settings.compression_threshold)

\* The loop over messages_to_process: batch up, compress when over the threshold
RECURSIVE FoldIn(_, _, _, _, _, _)
FoldIn(manager, st, todo, at, reply, outcome) ==
    IF todo = <<>> THEN st
    ELSE LET msg == Head(todo)
             current_batch == Append(st.batch, msg)
             check_context == st.final \o current_batch
         IN IF ShouldCompress(manager, check_context)
            THEN FoldIn(manager,
                        [final |-> Process(manager, check_context, FALSE, at,
                                           reply, outcome),
                         batch |-> <<>>, last_id |-> Some(msg.id), save |-> TRUE],
                        Tail(todo), at, reply, outcome)
            ELSE FoldIn(manager,
                        [st EXCEPT !.batch = current_batch, !.last_id = Some(msg.id)],
                        Tail(todo), at, reply, outcome)

\* After the loop: the batch left over is added, and compressed when over the
\* threshold
Leftover(manager, st1, loaded, at, reply, outcome) ==
    IF st1.batch = <<>> THEN st1
    ELSE IF ShouldCompress(manager, st1.final \o st1.batch)
    THEN [st1 EXCEPT !.final = Process(manager, st1.final \o st1.batch, FALSE, at,
                                       reply, outcome),
                     !.save = TRUE]
    ELSE [st1 EXCEPT !.final = st1.final \o st1.batch, !.save = st1.save \/ loaded]

\* Before the loop: a snapshot that is over the threshold is compressed again
Preloaded(manager, final0, last0, at, reply, outcome) ==
    IF ShouldCompress(manager, final0)
    THEN [final |-> Process(manager, final0, FALSE, at, reply, outcome),
          batch |-> <<>>, last_id |-> last0, save |-> TRUE]
    ELSE [final |-> final0, batch |-> <<>>, last_id |-> last0, save |-> FALSE]

\* messages_to_process: the incremental load after a snapshot that loaded, the
\* full load otherwise, less the last message when exclude_last is set
MessagesToProcess(tbl, snapshot, loaded, exclude_last) ==
    LET todo0 == IF loaded THEN GetMessagesAfter(tbl, snapshot[1].last_message_id)
                 ELSE GetByGroup(tbl)
    IN IF exclude_last /\ todo0 # <<>>
       THEN SubSeq(todo0, 1, Len(todo0) - 1) ELSE todo0

\* The messages the handler ends with, and whether and up to where to snapshot
HistoryOf(manager, tbl, snapshot, loaded, exclude_last, at, reply, outcome) ==
    LET final0 == IF loaded
                  THEN [i \in 1..Len(snapshot[1].context_content) |->
                           MessageValidate(snapshot[1].context_content[i])]
                  ELSE <<>>
        last0 == IF loaded THEN Some(snapshot[1].last_message_id) ELSE None
        todo == MessagesToProcess(tbl, snapshot, loaded, exclude_last)
    IN Leftover(manager,
                FoldIn(manager, Preloaded(manager, final0, last0, at, reply, outcome),
                       todo, at, reply, outcome),
                loaded, at, reply, outcome)

\* _sanitize_name and the source of a TextMessage
AutogenMessage(m) ==
    [content |-> m.content,
     source |-> IF m.role = "user" THEN "user" ELSE m.sender_name]

\* The handler, from the group's settings to the TextMessage list.  The snapshot
\* row may fail to parse (load_ok) and the snapshot insert may raise (save_ok);
\* both are caught.
BuildHistory(exclude_last, reply, outcome, load_ok, save_ok) ==
    /\ builds < MaxBuilds
    /\ builds' = builds + 1
    /\ \E snapshot \in (IF snapshots = <<>> THEN {None}
                        ELSE {Some(x) : x \in LatestSnapshots(snapshots)}) :
         \E st \in {HistoryOf(ManagerFor(settings), table, snapshot,
                               snapshot # None /\ load_ok, exclude_last, now,
                               reply, outcome)} :
            /\ cm' = ManagerFor(settings)
            /\ snapshots' =
                 IF st.save /\ st.last_id # None /\ st.final # <<>> /\ save_ok
                 THEN Append(snapshots,
                             [last_message_id |-> st.last_id[1],
                              context_content |->
                                  [i \in 1..Len(st.final) |-> MessageDump(st.final[i])],
                              token_count |-> CountMessagesTokens(st.final),
                              created_at |-> now])
                 ELSE snapshots
            /\ built' = [op |-> "history", loaded |-> snapshot # None /\ load_ok,
                         snapshot_last |-> IF snapshot # None /\ load_ok
                                           THEN Some(snapshot[1].last_message_id)
                                           ELSE None,
                         incremental |-> IF snapshot # None /\ load_ok
                                         THEN GetMessagesAfter(
                                                  table, snapshot[1].last_message_id)
                                         ELSE <<>>,
                         todo |-> MessagesToProcess(table, snapshot,
                                                    snapshot # None /\ load_ok,
                                                    exclude_last),
                         save |-> st.save, last_id |-> st.last_id,
                         appended |-> Len(snapshots') > Len(snapshots),
                         final |-> st.final,
                         result |-> [i \in 1..Len(st.final) |->
                                        AutogenMessage(st.final[i])]]
    /\ UNCHANGED <<table, settings, now>>
    /\ UNCHANGED notHist

\* The windows and thresholds of the groups modelled
GroupSettings ==
    {[window |-> 60, compression_threshold |-> r] : r \in {50, 80}}

\* What the models called during a build do: classification falls back to the
\* rules or types every message status; the summarizer raises or returns a text
BuildReplies == {"unparsed", "status"}
BuildOutcomes == {[raised |-> TRUE, text |-> None],
                  [raised |-> FALSE, text |-> Some(PlainText)]}

InitHistory ==
    /\ ArchIdle
    /\ RestIdle
    /\ ctx = <<>>
    /\ now = 0
    /\ cm = NewManager(DEFAULT_MAX_TOKENS, DEFAULT_THRESHOLD_RATIO)
    /\ nextMsg = 1
    /\ passes = 0
    /\ call = [op |-> "none"]
    /\ table = <<>>
    /\ snapshots = <<>>
    /\ settings \in GroupSettings
    /\ builds = 0
    /\ built = [op |-> "none"]

NextHistory ==
    \/ HistSave
    \/ HistTick
    \/ \E exclude_last \in BOOLEAN, reply \in BuildReplies,
          outcome \in BuildOutcomes, load_ok \in BOOLEAN, save_ok \in BOOLEAN :
         BuildHistory(exclude_last, reply, outcome, load_ok, save_ok)

SpecHistory == InitHistory /\ [][NextHistory]_vars

\* C7: the message list a history build returns has an estimated token total of
\* at most the context window the build ran with.
HistoryWithinMaxTokens ==
    built.op = "history" => CountMessagesTokens(built.final) <= cm.max_tokens

\* The newest row of the snapshot log
LastSnapshot == snapshots[Len(snapshots)]

\* C19: a history build in which compression ran or at least one new message
\* was folded in, with or without a snapshot to start from, ends by appending a
\* snapshot whose last included id is the last message processed and whose
\* content is the list returned.  (built.save: compression ran, or messages
\* were folded in on top of a loaded snapshot.)
BuildAppendsSnapshot ==
    (built.op = "history" /\ (built.save \/ built.todo # <<>>))
        => /\ built.appended
           /\ built.last_id = Some(LastSnapshot.last_message_id)
           /\ built.todo # <<>>
                 => LastSnapshot.last_message_id = built.todo[Len(built.todo)].id
           /\ [i \in 1..Len(LastSnapshot.context_content) |->
                  MessageValidate(LastSnapshot.context_content[i])] = built.final

\* The messages that follow message id in the log
FollowingInLog(tbl, id) ==
    LET i == CHOOSE k \in 1..Len(tbl) : tbl[k].id = id
    IN SubSeq(tbl, i + 1, Len(tbl))

\* C20: when the latest snapshot ends at message m, the incremental load
\* returns exactly the messages that follow m in the log, those with the
\* creation timestamp of m included.
IncrementalLoadExact ==
    (built.op = "history" /\ built.loaded)
        => built.incremental = FollowingInLog(table, built.snapshot_last[1])

-----------------------------------------------------------------------------
(* ChatService.start_discussion: the steps of a turn that can fail *)

\* A step of the turn meets a failure that its own code catches
Absorb(t, what, next) ==
    [t EXCEPT !.faults = @ + 1, !.absorbed = @ \cup {what}, !.pc = next]

\* The except clause of start_discussion for an error that names no invalid
\* model: no fallback group, ValueError to the caller
TurnRaise(t, what) ==
    [t EXCEPT !.faults = @ + 1, !.pc = "idle", !.outcome = "failed", !.cause = what]

CanFail(t) == t.faults < MaxFaults

\* get_group, save_message of the user's message, and the try block is entered
TurnStart(mode) ==
    /\ turn.pc = "idle"
    /\ turn.n < MaxTurns
    /\ turn' = [IdleTurn EXCEPT !.n = turn.n + 1, !.mode = mode,
                                !.faults = turn.faults,
                                !.pc = IF mode = "qa" THEN "memory_embed"
                                       ELSE "snapshot_get"]
    /\ UNCHANGED notTurn

\* _get_history_as_autogen_messages: repo.get_latest_snapshot, outside any try
HistorySnapshotGet(ok, found) ==
    /\ turn.pc = "snapshot_get"
    /\ ok \/ CanFail(turn)
    /\ turn' = IF ~ok THEN TurnRaise(turn, "snapshot_get")
               ELSE [turn EXCEPT !.pc = IF found THEN "snapshot_load" ELSE "compress"]
    /\ UNCHANGED notTurn

\* json.loads, model_validate and get_messages_after, inside the try: a failure
\* falls back to the full load
HistorySnapshotLoad(ok) ==
    /\ turn.pc = "snapshot_load"
    /\ ok \/ CanFail(turn)
    /\ turn' = IF ~ok THEN Absorb(turn, "snapshot_load", "compress")
               ELSE [turn EXCEPT !.pc = "compress"]
    /\ UNCHANGED notTurn

\* process_async when the threshold is reached: the classifier falls back to
\* its rules, a failed summary leaves the messages as they are
HistoryCompress(needed, classify_ok, summarize_ok) ==
    /\ turn.pc = "compress"
    /\ (classify_ok /\ summarize_ok) \/ (needed /\ CanFail(turn))
    /\ LET t1 == IF needed /\ ~classify_ok
                 THEN Absorb(turn, "classification", turn.pc) ELSE turn
           t2 == IF needed /\ ~summarize_ok
                 THEN [t1 EXCEPT !.absorbed = @ \cup {"summarization"},
                                 !.faults = turn.faults + 1]
                 ELSE t1
       IN turn' = [t2 EXCEPT !.context = IF needed /\ summarize_ok THEN "compressed"
                                         ELSE "uncompressed",
                             !.pc = IF needed THEN "snapshot_save" ELSE "memory_embed"]
    /\ UNCHANGED notTurn

\* repo.save_snapshot, inside a try
HistorySnapshotSave(ok) ==
    /\ turn.pc = "snapshot_save"
    /\ ok \/ CanFail(turn)
    /\ turn' = IF ~ok THEN Absorb(turn, "snapshot_save", "memory_embed")
               ELSE [turn EXCEPT !.pc = "memory_embed"]
    /\ UNCHANGED notTurn

\* build_injection_context: gateway.build_query_embedding; EmbeddingService.embed
\* catches whatever the embedding call raises
MemoryEmbed(ok) ==
    /\ turn.pc = "memory_embed"
    /\ ok \/ CanFail(turn)
    /\ turn' = IF ~ok THEN Absorb(turn, "query_embedding", "memory_search")
               ELSE [turn EXCEPT !.pc = "memory_search"]
    /\ UNCHANGED notTurn

\* gateway.search_scope for the enabled scopes, then filter, score and budget
MemorySearch(ok, hit) ==
    /\ turn.pc = "memory_search"
    /\ ok \/ CanFail(turn)
    /\ turn' = IF ~ok THEN TurnRaise(turn, "scope_search")
               ELSE IF hit THEN [turn EXCEPT !.pc = "memory_touch"]
               ELSE [turn EXCEPT !.pc = "memory_audit", !.block = "empty"]
    /\ UNCHANGED notTurn

\* dao.touch_used(ids)
MemoryTouch(ok) ==
    /\ turn.pc = "memory_touch"
    /\ ok \/ CanFail(turn)
    /\ turn' = IF ~ok THEN TurnRaise(turn, "touch_used")
               ELSE [turn EXCEPT !.pc = "memory_audit", !.block = "block"]
    /\ UNCHANGED notTurn

\* dao.add_audit_log(retrieve_empty or retrieve_hit)
MemoryAudit(ok) ==
    /\ turn.pc = "memory_audit"
    /\ ok \/ CanFail(turn)
    /\ turn' = IF ~ok THEN TurnRaise(turn, "audit_log")
               ELSE [turn EXCEPT !.pc = "discuss"]
    /\ UNCHANGED notTurn

\* AIGroupChat.discuss, the replies saved, the archival scheduled.  An invalid
\* model on the first attempt sends the turn round again with a fallback group.
Discuss(result) ==
    /\ turn.pc = "discuss"
    /\ turn' = CASE result = "ok" ->
                      [turn EXCEPT !.pc = "idle", !.outcome = "completed"]
                 [] result = "invalid_model" /\ turn.attempt = 0 ->
                      [turn EXCEPT !.attempt = 1, !.context = "none", !.block = "none",
                                   !.pc = IF turn.mode = "qa" THEN "memory_embed"
                                          ELSE "snapshot_get"]
                 [] OTHER ->
                      [turn EXCEPT !.pc = "idle", !.outcome = "failed",
                                   !.cause = "discussion"]
    /\ UNCHANGED notTurn

InitTurn ==
    /\ ArchIdle
    /\ CtxIdle
    /\ HistIdle
    /\ RestIdle

NextTurn ==
    \/ \E mode \in {"free", "qa"} : TurnStart(mode)
    \/ \E ok \in BOOLEAN, found \in BOOLEAN : HistorySnapshotGet(ok, found)
    \/ \E ok \in BOOLEAN : HistorySnapshotLoad(ok)
    \/ \E needed \in BOOLEAN, classify_ok \in BOOLEAN, summarize_ok \in BOOLEAN :
         HistoryCompress(needed, classify_ok, summarize_ok)
    \/ \E ok \in BOOLEAN : HistorySnapshotSave(ok)
    \/ \E ok \in BOOLEAN : MemoryEmbed(ok)
    \/ \E ok \in BOOLEAN, hit \in BOOLEAN : MemorySearch(ok, hit)
    \/ \E ok \in BOOLEAN : MemoryTouch(ok)
    \/ \E ok \in BOOLEAN : MemoryAudit(ok)
    \/ \E result \in {"ok", "invalid_model", "error"} : Discuss(result)

SpecTurn == InitTurn /\ [][NextTurn]_vars

\* C8: a turn fails only on the discussion itself: no failure of snapshot load
\* or save, classification, summarization, query embedding, scope search,
\* last-used touch or audit-log write ends a turn in an error.
TurnSurvivesInfrastructure ==
    turn.outcome = "failed" => turn.cause = "discussion"

-----------------------------------------------------------------------------
(* LongTermMemoryService: scoring and budgeted selection of a retrieval.
   Confidence, lexical, recency, decay and vector scores are in hundredths,
   a retrieval score in ten-thousandths, the injection ratio in percent. *)

MIN_TOKEN_BUDGET == 128

\* min(1.0, max(0.0, v))
Clamp01(v) == IF v < 0 THEN 0 ELSE IF v > 100 THEN 100 ELSE v

\* float(row.get(key, default) or default)
OrDefault(v, default) == IF v = 0 THEN default ELSE v

\* The score of one candidate row
RetrievalScore(row) ==
    LET confidence == OrDefault(row.confidence, 0)
        lexical == row.lexical
        recency == row.recency
        decay == OrDefault(row.decay_score, 100)
        vector_score == Clamp01(OrDefault(row.vector_score, 0))
    IN IF vector_score > 0
       THEN 40 * vector_score + 25 * lexical + 20 * confidence + 10 * recency + 5 * decay
       ELSE 55 * lexical + 25 * confidence + 10 * recency + 10 * decay

\* list.sort(key = retrieval_score, reverse = True) is stable: a row goes after
\* the rows that score as much as it does
RECURSIVE InsertByScore(_, _)
InsertByScore(sorted, row) ==
    IF sorted = <<>> THEN <<row>>
    ELSE IF Head(sorted).retrieval_score >= row.retrieval_score
         THEN <<Head(sorted)>> \o InsertByScore(Tail(sorted), row)
         ELSE <<row>> \o sorted

RECURSIVE SortByScore(_)
SortByScore(rows) ==
    IF rows = <<>> THEN <<>>
    ELSE InsertByScore(SortByScore(FirstN(rows, Len(rows) - 1)), rows[Len(rows)])

\* The loop of _score_and_filter: rows without an id or with an id already
\* seen are passed over, and so are rows under min_score
RECURSIVE ScoreLoop(_, _, _)
ScoreLoop(rows, seen, min_score) ==
    IF rows = <<>> THEN <<>>
    ELSE LET row == Head(rows)
             score == RetrievalScore(row)
         IN IF row.id = 0 \/ row.id \in seen
            THEN ScoreLoop(Tail(rows), seen, min_score)
            ELSE IF score < min_score * 100
            THEN ScoreLoop(Tail(rows), seen \cup {row.id}, min_score)
            ELSE <<[row EXCEPT !.retrieval_score = score]>>
                     \o ScoreLoop(Tail(rows), seen \cup {row.id}, min_score)

ScoreAndFilter(rows, min_score) == SortByScore(ScoreLoop(rows, {}, min_score))

\* max(128, int(max_context_tokens * ratio))
TokenBudget(max_context_tokens, ratio) ==
    Max(MIN_TOKEN_BUDGET, (max_context_tokens * ratio) \div 100)

\* _count_tokens(content)
CountTokens(row) == row.tokens

\* The loop of _apply_budget with the test of the budget made before the row
\* is counted
RECURSIVE BudgetLoopLate(_, _, _, _, _)
BudgetLoopLate(rows, selected, used, token_budget, top_n) ==
    IF rows = <<>> \/ Len(selected) >= top_n THEN selected
    ELSE LET t == CountTokens(Head(rows))
         IN IF used > token_budget
            THEN BudgetLoopLate(Tail(rows), selected, used, token_budget, top_n)
            ELSE BudgetLoopLate(Tail(rows), Append(selected, Head(rows)), used + t,
                                token_budget, top_n)

\* The loop of _apply_budget with break in place of continue: the first row
\* over the remaining budget ends the selection
RECURSIVE BudgetLoopStops(_, _, _, _, _)
BudgetLoopStops(rows, selected, used, token_budget, top_n) ==
    IF rows = <<>> \/ Len(selected) >= top_n THEN selected
    ELSE LET t == CountTokens(Head(rows))
         IN IF used + t > token_budget
            THEN selected
            ELSE BudgetLoopStops(Tail(rows), Append(selected, Head(rows)), used + t,
                                 token_budget, top_n)

\* The loop of _apply_budget
RECURSIVE BudgetLoop(_, _, _, _, _)
BudgetLoop(rows, selected, used, token_budget, top_n) ==
    IF rows = <<>> \/ Len(selected) >= top_n THEN selected
    ELSE LET t == CountTokens(Head(rows))
         IN IF used + t > token_budget
            THEN BudgetLoop(Tail(rows), selected, used, token_budget, top_n)
            ELSE BudgetLoop(Tail(rows), Append(selected, Head(rows)), used + t,
                            token_budget, top_n)

ApplyBudget(rows, max_context_tokens, ratio, top_n) ==
    BudgetLoop(rows, <<>>, 0, TokenBudget(max_context_tokens, ratio), top_n)

\* Candidate rows as search_scope returns them
CandidateRows ==
    [id : 1..3, tokens : {60, 100, 200}, confidence : {80}, lexical : {0, 100},
     recency : {100}, decay_score : {100}, vector_score : {0, 90},
     retrieval_score : {0}]

RECURSIVE ListsUpTo(_, _)
ListsUpTo(S, n) ==
    IF n = 0 THEN {<<>>}
    ELSE LET shorter == ListsUpTo(S, n - 1)
         IN shorter \cup {Append(l, x) : l \in {m \in shorter : Len(m) = n - 1}, x \in S}

\* The candidates of one retrieval: a record that two scope searches return
\* is the same row both times
CandidateLists ==
    {l \in ListsUpTo(CandidateRows, MaxCands) :
        \A i, j \in 1..Len(l) : l[i].id = l[j].id => l[i] = l[j]}

\* Group memory settings within MemorySettingsUpdate, and a model's window
RetrievalSettings ==
    [max_context_tokens : {2000, 4000}, ratio : {5}, top_n : {1, 2},
     min_score : {35, 70}]

\* build_injection_context from the scored list to the selection
Retrieve ==
    /\ retr.op = "candidates"
    /\ \E scored \in {ScoreAndFilter(retr.candidates, retr.settings.min_score)} :
         retr' = [retr EXCEPT
                    !.op = "retrieve",
                    !.scored = scored,
                    !.token_budget = TokenBudget(retr.settings.max_context_tokens,
                                                 retr.settings.ratio),
                    !.selected = ApplyBudget(scored, retr.settings.max_context_tokens,
                                             retr.settings.ratio, retr.settings.top_n)]
    /\ UNCHANGED notRetr

InitRetrieve ==
    /\ ArchIdle
    /\ CtxIdle
    /\ HistIdle
    /\ turn = IdleTurn
    /\ SrchIdle
    /\ \E candidates \in CandidateLists, group \in RetrievalSettings :
         retr = [op |-> "candidates", candidates |-> candidates, settings |-> group,
                 scored |-> <<>>, token_budget |-> 0, selected |-> <<>>]

NextRetrieve == Retrieve

SpecRetrieve == InitRetrieve /\ [][NextRetrieve]_vars

RECURSIVE SumTokens(_)
SumTokens(rows) ==
    IF rows = <<>> THEN 0 ELSE CountTokens(Head(rows)) + SumTokens(Tail(rows))

\* C9: the records chosen by budgeted selection number at most top_n, and their
\* content token counts add up to at most
\* token_budget = max(128, max_context_tokens * ratio).
SelectionWithinBudget ==
    retr.op = "retrieve"
        => /\ Len(retr.selected) <= retr.settings.top_n
           /\ SumTokens(retr.selected) <= retr.token_budget
           /\ retr.token_budget
                  = Max(128, (retr.settings.max_context_tokens * retr.settings.ratio) \div 100)

\* A retrieval where the budget, not top_n, stopped the selection: a scored row
\* was left out although fewer than top_n rows were chosen
SelectionWithinBudgetWitness ==
    /\ retr.op = "retrieve"
    /\ Len(retr.selected) >= 1
    /\ Len(retr.selected) < retr.settings.top_n
    /\ Len(retr.scored) > Len(retr.selected)
    /\ SumTokens(retr.scored) > retr.token_budget

\* The rows of the scored list before position k that were selected
SelectedBefore(k) ==
    SelectSeq(FirstN(retr.scored, k - 1), LAMBDA row : row \in RangeOf(retr.selected))

\* C30: budgeted selection is greedy acceptance over the candidates that clear
\* min_score, visited in descending score order: a record is selected exactly
\* when, at its turn, fewer than top_n records are selected and its token count
\* fits in the remaining budget; a record that does not fit is skipped and the
\* later records are still considered.
SelectionIsGreedy ==
    retr.op = "retrieve"
        => /\ {row.id : row \in RangeOf(retr.scored)}
                 = {row.id : row \in {c \in RangeOf(retr.candidates) :
                                        c.id # 0 /\ RetrievalScore(c) >= retr.settings.min_score * 100}}
           /\ \A i, j \in 1..Len(retr.scored) :
                 i < j => /\ retr.scored[i].retrieval_score >= retr.scored[j].retrieval_score
                          /\ retr.scored[i].id # retr.scored[j].id
           /\ retr.selected = SelectSeq(retr.scored, LAMBDA row : row \in RangeOf(retr.selected))
           /\ \A k \in 1..Len(retr.scored) :
                 retr.scored[k] \in RangeOf(retr.selected)
                     <=> /\ Len(SelectedBefore(k)) < retr.settings.top_n
                         /\ CountTokens(retr.scored[k])
                                <= retr.token_budget - SumTokens(SelectedBefore(k))

\* A record that did not fit was skipped and one visited after it was selected
SelectionIsGreedyWitness ==
    /\ retr.op = "retrieve"
    /\ \E i, j \in 1..Len(retr.scored) :
          /\ i < j
          /\ retr.scored[i] \notin RangeOf(retr.selected)
          /\ retr.scored[j] \in RangeOf(retr.selected)
          /\ Len(SelectedBefore(i)) >= 1

\* C10: the selection is empty if and only if no candidate clears min_score.
SelectionEmptyIffNoneClears ==
    retr.op = "retrieve"
        => (retr.selected = <<>>
              <=> ~\E i \in 1..Len(retr.candidates) :
                     RetrievalScore(retr.candidates[i]) >= retr.settings.min_score * 100)

-----------------------------------------------------------------------------
(* Retrieval from the store: MemoryGateway, LongTermMemoryDAO.list_candidates and
   LongTermMemoryService.build_injection_context over users, conversations and
   persona versions *)

Users == {"u1", "u2"}
Conversations == {"g1", "g2"}
AUTO_INJECTION_MEMORY_TYPES ==
    {"user_profile", "user_preference", "user_habit", "user_constraint"}
AUTO_INJECTION_SCOPES == {"user_global"}

\* What a user states, and the query of the retrievals
UserText(u) == IF u = "u1" THEN LineText(1) ELSE LineText(2)
Query == LineText(1)

\* The scope flags a conversation can be set to
ScopeFlags ==
    {[user_global |-> TRUE, group_local |-> TRUE, agent_local |-> TRUE],
     [user_global |-> FALSE, group_local |-> TRUE, agent_local |-> TRUE],
     [user_global |-> TRUE, group_local |-> FALSE, agent_local |-> FALSE]}

\* A GroupChat as the callers hand it to archival and retrieval
GroupOf(g, flags, thinking) ==
    [id |-> g, memory_enabled |-> TRUE, archive_enabled |-> TRUE,
     retrieve_enabled |-> TRUE,
     scope_user_global |-> flags.user_global,
     scope_group_local |-> flags.group_local,
     scope_agent_local |-> flags.agent_local,
     memory_injection_ratio |-> 20, memory_top_n |-> 5,
     memory_min_confidence |-> 75, memory_score_threshold |-> 35,
     members |-> <<Member(g, thinking)>>]

GroupChats ==
    {GroupOf(g, flags, thinking) :
        g \in Conversations, flags \in ScopeFlags, thinking \in BOOLEAN}

\* An embedding call that hands back a vector although the collaborator raised
EmbedUnguarded(gw, collaborator, text) ==
    IF ~gw.enabled \/ Strip(text) = <<>> THEN None ELSE Some(Strip(text))

\* EmbeddingService.embed: no vector when disabled, for an empty payload, or
\* when the embeddings call raises.  The vector of a text stands as the text.
Embed(gw, collaborator, text) ==
    IF ~gw.enabled THEN None
    ELSE IF Strip(text) = <<>> THEN None
    ELSE IF collaborator = "raises" THEN None
    ELSE Some(Strip(text))

\* EmbeddingService.to_pgvector_literal
ToPgvectorLiteral(vector) ==
    IF vector = None THEN None ELSE Some(<<"[", vector[1], "]">>)

\* MemoryGateway.build_query_embedding
BuildQueryEmbedding(gw, collaborator, query) ==
    IF ~gw.vector_enabled THEN None
    ELSE ToPgvectorLiteral(Embed(gw, collaborator, query))

\* MemoryGateway._embed_memory_contents for one memory, as add_memories uses it
EmbedMemoryContent(gw, collaborator, memory) ==
    IF ~gw.vector_enabled THEN None
    ELSE ToPgvectorLiteral(Embed(gw, collaborator, Strip(memory.content)))

\* COALESCE(1 - (embedding <=> query), 0): the same vector is at distance 0
VectorScore(row, query_embedding) ==
    IF row.embedding = None THEN 0
    ELSE IF row.embedding = query_embedding THEN 100
    ELSE 50

\* _lexical_score for the texts of the model: equal texts score 1.0; two
\* statements that differ in their last word share 2/3 of their characters and
\* half of the query's tokens, 0.6 * 2/3 + 0.4 * 1/2
LexicalScore(query, content) ==
    LET q == LowerText(Strip(query))
        c == LowerText(Strip(content))
    IN IF q = <<>> \/ c = <<>> THEN 0
       ELSE IF q = c THEN 100
       ELSE 60

\* A row of the result set with the columns the scoring and the budget read;
\* the row is fresh (_recency_bonus 1.0), its tokens are counted without encoder
CandidateOf(row, vector_score, query) ==
    [id |-> row.id, scope |-> row.scope, memory_type |-> row.memory_type,
     user_id |-> row.user_id, group_id |-> row.group_id,
     member_id |-> row.member_id, persona_version |-> row.persona_version,
     content |-> row.content, confidence |-> row.confidence,
     decay_score |-> row.decay_score, vector_score |-> vector_score,
     lexical |-> LexicalScore(query, row.content), recency |-> 100,
     tokens |-> Max(1, Len(row.content) \div 2), retrieval_score |-> 0]

\* ORDER BY vector_score DESC over rows already in updated_at order
RECURSIVE InsertByVector(_, _)
InsertByVector(sorted, row) ==
    IF sorted = <<>> THEN <<row>>
    ELSE IF Head(sorted).vector_score >= row.vector_score
         THEN <<Head(sorted)>> \o InsertByVector(Tail(sorted), row)
         ELSE <<row>> \o sorted

RECURSIVE SortByVector(_)
SortByVector(rows) ==
    IF rows = <<>> THEN <<>>
    ELSE InsertByVector(SortByVector(FirstN(rows, Len(rows) - 1)), rows[Len(rows)])

\* A candidate query that leaves the owner out of its WHERE clause
ListCandidatesAnyUser(tbl, vector_available, q) ==
    LET with_vector == vector_available /\ q.query_embedding # None
        matches(r) ==
            /\ r.scope = q.scope
            /\ r.confidence >= q.min_confidence
            /\ r.is_active
            /\ r.expires_at \in {NULL, "in180days"}
            /\ q.group_id # NULL => Coalesce(r.group_id) = Coalesce(q.group_id)
            /\ q.member_id # NULL => Coalesce(r.member_id) = Coalesce(q.member_id)
            /\ q.persona_version # NULL
                  => Coalesce(r.persona_version) = Coalesce(q.persona_version)
        rows == SelectSeq(tbl, matches)
        cands == [i \in 1..Len(rows) |->
                    CandidateOf(rows[i],
                                IF with_vector
                                THEN VectorScore(rows[i], q.query_embedding) ELSE 0,
                                Query)]
    IN FirstN(IF with_vector THEN SortByVector(cands) ELSE cands, q.limit)

\* LongTermMemoryDAO.list_candidates over the table in updated_at order
ListCandidates(tbl, vector_available, q) ==
    LET with_vector == vector_available /\ q.query_embedding # None
        matches(r) ==
            /\ r.scope = q.scope
            /\ r.user_id = q.user_id
            /\ r.confidence >= q.min_confidence
            /\ r.is_active
            /\ r.expires_at \in {NULL, "in180days"}
            /\ q.group_id # NULL => Coalesce(r.group_id) = Coalesce(q.group_id)
            /\ q.member_id # NULL => Coalesce(r.member_id) = Coalesce(q.member_id)
            /\ q.persona_version # NULL
                  => Coalesce(r.persona_version) = Coalesce(q.persona_version)
        rows == SelectSeq(tbl, matches)
        cands == [i \in 1..Len(rows) |->
                    CandidateOf(rows[i],
                                IF with_vector
                                THEN VectorScore(rows[i], q.query_embedding) ELSE 0,
                                Query)]
    IN FirstN(IF with_vector THEN SortByVector(cands) ELSE cands, q.limit)

\* MemoryGateway.search_scope: the arguments it hands to list_candidates
SearchScope(gw, scope, user_id, group_id, member_id, persona_version, min_confidence, query_embedding, limit) ==
    [scope |-> scope, user_id |-> user_id, group_id |-> group_id,
     member_id |-> member_id, persona_version |-> persona_version,
     min_confidence |-> min_confidence,
     query_embedding |-> IF gw.vector_enabled THEN query_embedding ELSE None,
     limit |-> limit]

\* Scope searches whose agent_local search names the member but no persona
\* version
ScopeSearchesAnyPersona(gw, group, user_id, query_embedding) ==
    (IF group.scope_user_global
     THEN <<SearchScope(gw, "user_global", user_id, NULL, NULL, NULL,
                        group.memory_min_confidence, query_embedding, 12)>>
     ELSE <<>>)
    \o (IF group.scope_group_local
        THEN <<SearchScope(gw, "group_local", user_id, group.id, NULL, NULL,
                           group.memory_min_confidence, query_embedding, 12)>>
        ELSE <<>>)
    \o (IF group.scope_agent_local
        THEN [i \in 1..Len(group.members) |->
                SearchScope(gw, "agent_local", user_id, group.id,
                            group.members[i].id, NULL,
                            group.memory_min_confidence, query_embedding, 6)]
        ELSE <<>>)

\* The scope searches build_injection_context makes, in its order
ScopeSearches(gw, group, user_id, query_embedding) ==
    (IF group.scope_user_global
     THEN <<SearchScope(gw, "user_global", user_id, NULL, NULL, NULL,
                        group.memory_min_confidence, query_embedding, 12)>>
     ELSE <<>>)
    \o (IF group.scope_group_local
        THEN <<SearchScope(gw, "group_local", user_id, group.id, NULL, NULL,
                           group.memory_min_confidence, query_embedding, 12)>>
        ELSE <<>>)
    \o (IF group.scope_agent_local
        THEN [i \in 1..Len(group.members) |->
                SearchScope(gw, "agent_local", user_id, group.id,
                            group.members[i].id, PersonaVersion(group.members[i]),
                            group.memory_min_confidence, query_embedding, 6)]
        ELSE <<>>)

RECURSIVE Concat(_)
Concat(lists) ==
    IF lists = <<>> THEN <<>> ELSE Head(lists) \o Concat(Tail(lists))

\* LongTermMemoryService._filter_candidates
FilterCandidates(rows, memory_types, scopes) ==
    IF rows = <<>> THEN <<>>
    ELSE IF memory_types = {} /\ scopes = {} THEN rows
    ELSE SelectSeq(rows, LAMBDA row :
            /\ memory_types # {} => row.memory_type \in memory_types
            /\ scopes # {} => row.scope \in scopes)

\* build_injection_context up to the selection
InjectionContext(gw, collaborator, tbl, group, user_id, query, memory_types, scopes) ==
    IF ~group.memory_enabled \/ ~group.retrieve_enabled
    THEN [calls |-> <<>>, candidates |-> <<>>, scored |-> <<>>, selected |-> <<>>]
    ELSE LET query_embedding == BuildQueryEmbedding(gw, collaborator, query)
             calls == ScopeSearches(gw, group, user_id, query_embedding)
             found == Concat([i \in 1..Len(calls) |->
                                ListCandidates(tbl, gw.vector_available, calls[i])])
             candidates == FilterCandidates(found, memory_types, scopes)
             scored == ScoreAndFilter(candidates, group.memory_score_threshold)
         IN [calls |-> calls, candidates |-> candidates, scored |-> scored,
             selected |-> IF candidates = <<>> THEN <<>>
                          ELSE ApplyBudget(scored, DEFAULT_MAX_TOKENS,
                                           group.memory_injection_ratio,
                                           group.memory_top_n)]

\* The orders in which the table can lie by updated_at
TableOrders(store) ==
    {t \in [1..Cardinality(store) -> store] : \A r \in store : \E i \in DOMAIN t : t[i] = r}

\* The filters of the callers: the search tool passes none, the automatic
\* injection passes its memory types and scopes
Filters ==
    {[memory_types |-> {}, scopes |-> {}],
     [memory_types |-> AUTO_INJECTION_MEMORY_TYPES, scopes |-> AUTO_INJECTION_SCOPES]}

\* The extracted item of one archival: a preference of the user, a conclusion of
\* the conversation, or a note of the member on itself
ItemOf(scope, u) ==
    [scope |-> scope,
     memory_type |-> IF scope = "user_global" THEN "user_profile" ELSE "discussion_asset",
     content |-> UserText(u), confidence |-> 80, sender_name |-> "Bot"]

\* archive_incremental for user u in a conversation, from the extracted item to
\* the upsert: _prepare_memories, add_memories, upsert_memory
SearchArchive(u, group, scope) ==
    /\ srch.last.op = "none"
    /\ LET raw == <<NewMessage(1, "user", UserText(u), 0)>>
           prepared == PrepareMemories(group, u, raw, <<ItemOf(scope, u)>>)
       IN IF prepared = <<>>
          THEN UNCHANGED <<memories, nextUuid>>
          ELSE LET record == [WithFingerprint(prepared[1]) EXCEPT
                                !.embedding = EmbedMemoryContent(srch.gw, srch.collaborator,
                                                                 prepared[1])]
                   found == FindDuplicate(memories, record)
                   dup == IF found = {} THEN None ELSE Some(CHOOSE id \in found : TRUE)
                   res == UpsertWrite(memories, record, dup, nextUuid)
               IN /\ dup = None => Cardinality(memories) < MaxStore
                  /\ memories' = res.store
                  /\ nextUuid' = IF res.id = nextUuid THEN nextUuid + 1 ELSE nextUuid
    /\ UNCHANGED <<srch, audit>>
    /\ UNCHANGED notSrch

\* The rows a retrieval for user u in the conversation may see
InScope(r, u, group) ==
    /\ r.user_id = u
    /\ r.scope \in {"group_local", "agent_local"} => r.group_id = group.id
    /\ ScopeEnabled(group, r.scope)

\* An UPDATE of touch_used without its WHERE clause
TouchAll(store, ids, at) ==
    IF ids = {} THEN store
    ELSE {[r EXCEPT !.last_used_at = Some(at),
                    !.decay_score = IF @ + 5 > 100 THEN 100 ELSE @ + 5] : r \in store}

\* dao.touch_used: last_used_at of the returned rows is set and their decay
\* score rises by 0.05 up to 1.0; no statement is run for an empty list
TouchUsed(store, ids, at) ==
    IF ids = {} THEN store
    ELSE {IF r.id \in ids
          THEN [r EXCEPT !.last_used_at = Some(at),
                         !.decay_score = IF @ + 5 > 100 THEN 100 ELSE @ + 5]
          ELSE r : r \in store}

\* The audit entry of a retrieval: retrieve_empty when no candidate is left
\* after the filter or none is selected, retrieve_hit with the ids otherwise
RetrieveAudit(request_id, selected) ==
    IF selected = <<>>
    THEN [request_id |-> request_id, event_type |-> "retrieve_empty",
          memory_ids |-> <<>>]
    ELSE [request_id |-> request_id, event_type |-> "retrieve_hit",
          memory_ids |-> [i \in 1..Len(selected) |-> selected[i].id]]

\* build_injection_context for user u in a conversation
SearchRetrieve(u, group, filter) ==
    /\ srch.last.op = "none"
    /\ srch.retrievals < MaxSearches
    /\ \E tbl \in TableOrders(memories) :
         \E res \in {InjectionContext(srch.gw, srch.collaborator, tbl, group, u, Query,
                                      filter.memory_types, filter.scopes)} :
           /\ srch' = [srch EXCEPT !.retrievals = @ + 1, !.last =
                      [op |-> "retrieve", user_id |-> u, group |-> group,
                       filter |-> filter, calls |-> res.calls,
                       candidates |-> res.candidates, scored |-> res.scored,
                       selected |-> res.selected,
                       visible |-> InjectionContext(
                                      srch.gw, srch.collaborator,
                                      SelectSeq(tbl, LAMBDA r : InScope(r, u, group)),
                                      group, u, Query,
                                      filter.memory_types, filter.scopes).selected]]
           /\ memories' = TouchUsed(memories,
                                    {res.selected[i].id : i \in 1..Len(res.selected)},
                                    clock)
           /\ audit' = IF group.memory_enabled /\ group.retrieve_enabled
                       THEN AddRow(audit, RetrieveAudit(<<"r", srch.retrievals + 1>>,
                                                        res.selected))
                       ELSE audit
    /\ UNCHANGED nextUuid
    /\ UNCHANGED notSrch

\* build_injection_context hands its block to the caller
SearchReturn ==
    /\ srch.last.op = "retrieve"
    /\ srch' = [srch EXCEPT !.last = [op |-> "none"]]
    /\ UNCHANGED <<memories, nextUuid, audit>>
    /\ UNCHANGED notSrch

ProcessStarts ==
    {[enabled |-> TRUE, vector_available |-> TRUE, collaborator |-> "works"],
     [enabled |-> TRUE, vector_available |-> TRUE, collaborator |-> "raises"],
     [enabled |-> FALSE, vector_available |-> TRUE, collaborator |-> "works"],
     [enabled |-> TRUE, vector_available |-> FALSE, collaborator |-> "raises"]}

\* A process starts: the vector settings, the pgvector extension, and whether
\* the embeddings endpoint answers or raises on every call
InitSearch ==
    /\ ArchIdle
    /\ CtxIdle
    /\ HistIdle
    /\ turn = IdleTurn
    /\ retr = [op |-> "none"]
    /\ \E start \in ProcessStarts :
         srch = [gw |-> NewGateway(start.enabled, start.vector_available),
                 collaborator |-> start.collaborator, retrievals |-> 0,
                 last |-> [op |-> "none"]]

NextSearch ==
    \/ \E u \in Users, group \in GroupChats,
          scope \in {"user_global", "group_local", "agent_local"} :
         SearchArchive(u, group, scope)
    \/ \E u \in Users, group \in GroupChats, filter \in Filters :
         SearchRetrieve(u, group, filter)
    \/ SearchReturn

SpecSearch == InitSearch /\ [][NextSearch]_vars

\* C12: when the embedding collaborator raises on every call, the gateway's
\* vector_enabled capability is false throughout the life of the process.
VectorDisabledWhenEmbeddingRaises ==
    (srch.collaborator = "raises" /\ srch.last.op = "retrieve")
        => ~srch.gw.vector_enabled

\* The no-vector formula of _score_and_filter
NoVectorScore(row) ==
    55 * row.lexical + 25 * row.confidence + 10 * row.recency + 10 * row.decay_score

\* C13: when the embedding collaborator raises on every call, no scope search
\* of a retrieval receives a query vector, every candidate row has vector score
\* 0, and every candidate is scored by the no-vector formula.
RaisingEmbeddingMeansNoVector ==
    (srch.collaborator = "raises" /\ srch.last.op = "retrieve")
        => /\ \A i \in 1..Len(srch.last.calls) :
                srch.last.calls[i].query_embedding = None
           /\ \A i \in 1..Len(srch.last.candidates) :
                srch.last.candidates[i].vector_score = 0
           /\ \A i \in 1..Len(srch.last.scored) :
                srch.last.scored[i].retrieval_score = NoVectorScore(srch.last.scored[i])

\* A retrieval that found candidates in a process whose vector capability is
\* configured on while every embedding call raises
RaisingEmbeddingWitness ==
    /\ srch.collaborator = "raises"
    /\ srch.gw.vector_enabled
    /\ srch.last.op = "retrieve"
    /\ Len(srch.last.scored) >= 2

\* C15: a retrieval for user u in conversation g returns no record of another
\* user, no group_local or agent_local record of another conversation and no
\* record of a scope disabled on g; its output is the output over the store
\* with every such record taken away.
RetrievalIsolated ==
    srch.last.op = "retrieve"
        => /\ \A i \in 1..Len(srch.last.selected) :
                InScope(srch.last.selected[i], srch.last.user_id, srch.last.group)
           /\ srch.last.selected = srch.last.visible

\* A retrieval that returned a record while the store held a record of another
\* user
RetrievalIsolatedWitness ==
    /\ srch.last.op = "retrieve"
    /\ Len(srch.last.selected) >= 1
    /\ \E r \in memories : r.user_id # srch.last.user_id /\ r.scope = "group_local"
                           /\ r.group_id = srch.last.group.id
                           /\ srch.last.group.scope_group_local

\* The active group_local records of the conversation that clear its confidence
\* threshold
SharedRecords(group) ==
    {r \in memories : /\ r.scope = "group_local"
                      /\ r.group_id = group.id
                      /\ r.is_active
                      /\ r.confidence >= group.memory_min_confidence}

Returned(r) == \E i \in 1..Len(srch.last.selected) : srch.last.selected[i].id = r.id

\* C16: a group_local record of the conversation, archived by a run for one
\* user, is returned by a retrieval in that conversation for any user
\* (group_local enabled, no allow-list, thresholds and budget met).
GroupLocalVisibleToParticipants ==
    (/\ srch.last.op = "retrieve"
     /\ srch.last.group.scope_group_local
     /\ srch.last.filter.scopes = {})
        => \A r \in SharedRecords(srch.last.group) : Returned(r)

\* The same records are returned to the user they were archived for
GroupLocalVisibleToOwner ==
    (/\ srch.last.op = "retrieve"
     /\ srch.last.group.scope_group_local
     /\ srch.last.filter.scopes = {})
        => \A r \in SharedRecords(srch.last.group) :
              r.user_id = srch.last.user_id => Returned(r)

\* The persona versions of the members as the conversation stands at a retrieval
CurrentPersona(group, r) ==
    \E i \in 1..Len(group.members) :
        /\ r.member_id = group.members[i].id
        /\ r.persona_version = PersonaVersion(group.members[i])

\* C17: once the configuration of a member has changed its persona version, a
\* retrieval returns no agent_local record archived under the previous version,
\* and it returns the records archived under the version in force.
PersonaChangeInvalidates ==
    srch.last.op = "retrieve"
        => /\ \A i \in 1..Len(srch.last.selected) :
                srch.last.selected[i].scope = "agent_local"
                    => CurrentPersona(srch.last.group, srch.last.selected[i])
           /\ (srch.last.group.scope_agent_local /\ srch.last.filter.scopes = {})
                => \A r \in memories :
                      (/\ r.scope = "agent_local"
                       /\ r.user_id = srch.last.user_id
                       /\ r.group_id = srch.last.group.id
                       /\ r.is_active
                       /\ r.confidence >= srch.last.group.memory_min_confidence
                       /\ CurrentPersona(srch.last.group, r))
                          => Returned(r)

\* A retrieval over a store that holds a record of the member under each of its
\* two persona versions, returning the one under the version in force
PersonaChangeWitness ==
    /\ srch.last.op = "retrieve"
    /\ \E r1, r2 \in memories :
          /\ r1.scope = "agent_local" /\ r2.scope = "agent_local"
          /\ r1.user_id = srch.last.user_id /\ r2.user_id = srch.last.user_id
          /\ r1.group_id = srch.last.group.id /\ r2.group_id = srch.last.group.id
          /\ r1.member_id = r2.member_id
          /\ r1.persona_version # r2.persona_version
          /\ CurrentPersona(srch.last.group, r1)
          /\ Returned(r1)
          /\ ~Returned(r2)

\* The ids a retrieval hands back
SelectedIds(last) == {last.selected[i].id : i \in 1..Len(last.selected)}

\* C25: a retrieval that selects the records S sets last-used and adds 0.05 to
\* the decay score, capped at 1.0, for the records of S and changes no other
\* memory record; a retrieval that returns nothing changes no memory record;
\* no decay score is ever above 1.0; and each enabled retrieval appends exactly
\* one audit entry, retrieve_hit or retrieve_empty.
RetrievalTouchesSelection ==
    [][/\ \A r \in memories' : r.decay_score <= 100
       /\ (srch.last.op = "none" /\ srch'.last.op = "retrieve")
            => LET ids == SelectedIds(srch'.last)
               IN /\ \A r \in memories : r.id \notin ids => r \in memories'
                  /\ \A r \in memories :
                        r.id \in ids
                          => [r EXCEPT !.last_used_at = Some(clock),
                                       !.decay_score = IF @ + 5 > 100 THEN 100 ELSE @ + 5]
                               \in memories'
                  /\ Cardinality(memories') = Cardinality(memories)
                  /\ ids = {} => memories' = memories
                  /\ RowCount(audit') = RowCount(audit) + 1
                  /\ \E row \in DOMAIN audit' :
                        /\ row.event_type
                             = (IF ids = {} THEN "retrieve_empty" ELSE "retrieve_hit")
                        /\ audit' = AddRow(audit, row)]_vars

\* A retrieval has touched the record it returned and left alone another record
\* of the store
RetrievalTouchesWitness ==
    /\ srch.last.op = "retrieve"
    /\ \E r1, r2 \in memories :
          /\ Returned(r1) /\ r1.last_used_at # None
          /\ ~Returned(r2) /\ r2.last_used_at = None

-----------------------------------------------------------------------------
(* MemoryGateway.add_memories with an external provider (mem0) that mirrors
   every stored record *)

\* The provider client of a gateway: none configured, a client whose add
\* method is called, or an object without a callable add
Mem0Clients == {"absent", "client", "no_add"}

\* What the provider's add does on the k-th mirrored write of one call
Mem0Outcomes == [1..2 -> {"ok", "raises"}]

\* The mirrored writes with neither the except clause of _sync_to_mem0 nor
\* return_exceptions: the first exception of a task leaves gather
SyncTasksPropagating(mem0_client, tasks, outcomes) ==
    IF mem0_client # "client"
    THEN [raised |-> FALSE, mirrored |-> <<>>]
    ELSE [raised |-> \E k \in 1..Len(tasks) : outcomes[k] = "raises",
          mirrored |-> SelectSeq([k \in 1..Len(tasks) |-> IF outcomes[k] = "ok" THEN tasks[k] ELSE NULL],
                                 LAMBDA t : t # NULL)]

\* asyncio.gather(*sync_tasks, return_exceptions=True) over _sync_to_mem0: a
\* task returns at once without a callable add, logs a warning when the
\* provider raises, and gather hands no exception on
SyncTasks(mem0_client, tasks, outcomes) ==
    IF mem0_client # "client"
    THEN [raised |-> FALSE, mirrored |-> <<>>]
    ELSE [raised |-> FALSE,
          mirrored |-> SelectSeq([k \in 1..Len(tasks) |-> IF outcomes[k] = "ok" THEN tasks[k] ELSE NULL],
                                 LAMBDA t : t # NULL)]

RECURSIVE AddLoop(_, _, _, _, _, _, _, _)
\* The for loop of add_memories from index idx on: a memory without content is
\* passed over, the others are upserted in order and, with a provider client,
\* queued for the mirror
AddLoop(gw, collaborator, mem0_client, store, prepared, idx, next_id, acc) ==
    IF idx > Len(prepared)
    THEN [raised |-> FALSE, store |-> store, next_id |-> next_id,
          memory_ids |-> acc.memory_ids, sync_tasks |-> acc.sync_tasks]
    ELSE IF Strip(prepared[idx].content) = <<>>
    THEN AddLoop(gw, collaborator, mem0_client, store, prepared, idx + 1, next_id, acc)
    ELSE LET record == [WithFingerprint(prepared[idx]) EXCEPT
                          !.embedding = EmbedMemoryContent(gw, collaborator, prepared[idx])]
             found == FindDuplicate(store, record)
             dup == IF found = {} THEN None ELSE Some(CHOOSE id \in found : TRUE)
             res == UpsertWrite(store, record, dup, next_id)
         IN IF res.raised
            THEN [raised |-> TRUE, store |-> res.store, next_id |-> next_id,
                  memory_ids |-> acc.memory_ids, sync_tasks |-> acc.sync_tasks]
            ELSE AddLoop(gw, collaborator, mem0_client, res.store, prepared, idx + 1,
                         IF res.id = next_id THEN next_id + 1 ELSE next_id,
                         [memory_ids |-> Append(acc.memory_ids, res.id),
                          sync_tasks |-> IF mem0_client # "absent"
                                         THEN Append(acc.sync_tasks, record.content)
                                         ELSE acc.sync_tasks])

\* MemoryGateway.add_memories: the local upserts, then the mirrored writes;
\* the ids are returned unless an exception leaves the call
AddMemories(gw, collaborator, mem0_client, outcomes, store, prepared, next_id) ==
    LET local == AddLoop(gw, collaborator, mem0_client, store, prepared, 1, next_id,
                         [memory_ids |-> <<>>, sync_tasks |-> <<>>])
        sync == IF local.raised \/ local.sync_tasks = <<>>
                THEN [raised |-> FALSE, mirrored |-> <<>>]
                ELSE SyncTasks(mem0_client, local.sync_tasks, outcomes)
    IN [raised |-> local.raised \/ sync.raised,
        memory_ids |-> IF local.raised \/ sync.raised THEN <<>> ELSE local.memory_ids,
        store |-> local.store, next_id |-> local.next_id,
        sync_tasks |-> local.sync_tasks, mirrored |-> sync.mirrored]

\* What the same call does when every mirrored write succeeds
AllOk == [k \in 1..2 |-> "ok"]

\* An archive attempt of user u in a conversation reaches add_memories with
\* the memories prepared from two extracted items
MirrorAdd(u, group, scopes, mem0_client, outcomes) ==
    /\ srch.last.op = "none"
    /\ LET raw == <<NewMessage(1, "user", UserText(u), 0)>>
           prepared == PrepareMemories(group, u, raw,
                                       <<ItemOf(scopes[1], u), ItemOf(scopes[2], "u2")>>)
       IN \E res \in {AddMemories(srch.gw, srch.collaborator, mem0_client, outcomes,
                                  memories, prepared, nextUuid)},
             ref \in {AddMemories(srch.gw, srch.collaborator, mem0_client, AllOk,
                                  memories, prepared, nextUuid)} :
            /\ Cardinality(res.store) <= MaxStore
            /\ memories' = res.store
            /\ nextUuid' = res.next_id
            /\ srch' = [srch EXCEPT !.last =
                          [op |-> "add", mem0_client |-> mem0_client,
                           outcomes |-> outcomes, raised |-> res.raised,
                           memory_ids |-> res.memory_ids,
                           sync_tasks |-> res.sync_tasks, mirrored |-> res.mirrored,
                           ok_ids |-> ref.memory_ids, ok_store |-> ref.store]]
    /\ UNCHANGED audit
    /\ UNCHANGED notSrch

\* add_memories has returned to the archive attempt
MirrorReturn ==
    /\ srch.last.op = "add"
    /\ srch' = [srch EXCEPT !.last = [op |-> "none"]]
    /\ UNCHANGED <<memories, nextUuid, audit>>
    /\ UNCHANGED notSrch

\* The conversations of the archive attempts: every scope enabled
MirrorGroups ==
    {GroupOf(g, [user_global |-> TRUE, group_local |-> TRUE, agent_local |-> TRUE], FALSE) :
        g \in Conversations}

NextMirror ==
    \/ \E u \in Users, group \in MirrorGroups,
          scopes \in [1..2 -> {"user_global", "group_local", "agent_local"}],
          mem0_client \in Mem0Clients, outcomes \in Mem0Outcomes :
         MirrorAdd(u, group, scopes, mem0_client, outcomes)
    \/ MirrorReturn

SpecMirror == InitSearch /\ [][NextMirror]_vars

\* C26: with a provider client configured, add_memories returns the ids and
\* leaves the local store as it does when every mirrored write succeeds,
\* whatever the provider raises, and no provider error leaves add_memories.
MirrorFailureInvisible ==
    (srch.last.op = "add" /\ srch.last.mem0_client # "absent")
        => /\ ~srch.last.raised
           /\ srch.last.memory_ids = srch.last.ok_ids
           /\ memories = srch.last.ok_store

\* A mirrored write raised in a call that stored two records
MirrorFailureWitness ==
    /\ srch.last.op = "add"
    /\ srch.last.mem0_client = "client"
    /\ Len(srch.last.sync_tasks) = 2
    /\ \E k \in 1..2 : srch.last.outcomes[k] = "raises"
    /\ Len(srch.last.memory_ids) = 2

-----------------------------------------------------------------------------
(* MessageClassifier.classify_batch_async, one remote call at a time *)

\* MessageClassifier.MAX_RETRIES
CLASSIFY_MAX_RETRIES == 3

\* Bounds: the messages of a batch and the items of a reply
MaxBatch == 2
MaxItems == 2

\* The values of "type" in a reply: type names in either case, a name outside
\* the taxonomy, and a value that is not a string
ReplyTypes == {"USER", "status", "reasoning", "failure", "chat", "<number>"}

\* The elements of the JSON array of a reply: an object with index and type,
\* an object without type, and a number
ReplyItems ==
    {[shape |-> "object", index |-> i, type |-> t] : i \in 0..MaxBatch, t \in ReplyTypes}
        \cup {[shape |-> "no_type", index |-> i, type |-> "chat"] : i \in 0..MaxBatch}
        \cup {[shape |-> "number", index |-> 0, type |-> "chat"]}

\* What client.chat does: raise, or answer with prose that holds no array,
\* with an array that json.loads rejects, or with an array of items
Responses ==
    {[kind |-> k, items |-> <<>>] : k \in {"raises", "prose", "broken_json"}}
        \cup {[kind |-> "array", items |-> s] : s \in ListsUpTo(ReplyItems, MaxItems)}

\* item["type"].lower() mapped to a MessageType
TypeOfString(type_str) ==
    CASE type_str \in {"USER", "user"} -> "user"
      [] type_str = "status" -> "status"
      [] type_str = "reasoning" -> "reasoning"
      [] type_str = "failure" -> "failure"
      [] OTHER -> "normal"

\* The items _parse_response reads: dicts with both keys
Read(item) == item.shape = "object"

\* type_map.get(i, NORMAL) after the loop over the items: the last item read
\* for index i decides
TypeMapGet(items, i) ==
    LET at == {k \in 1..Len(items) : Read(items[k]) /\ items[k].index = i}
    IN IF at = {} THEN "normal"
       ELSE TypeOfString(items[CHOOSE k \in at : \A j \in at : j <= k].type)

\* MessageClassifier._parse_response: None without an array or when json.loads
\* fails; .lower() of a type that is no string raises AttributeError, which
\* the except clause does not name; otherwise expected_count types
ParseResponse(response, expected_count) ==
    IF response.kind # "array" THEN [raised |-> FALSE, types |-> None]
    ELSE IF \E k \in 1..Len(response.items) :
               Read(response.items[k]) /\ response.items[k].type = "<number>"
    THEN [raised |-> TRUE, types |-> None]
    ELSE [raised |-> FALSE,
          types |-> Some([i \in 1..expected_count |-> TypeMapGet(response.items, i - 1)])]

\* The batches handed to the classifier
Batches ==
    {[i \in 1..Len(f) |-> RowMessage(i, f[i].role, f[i].content, 0)] :
        f \in ListsUpTo({[role |-> "user", content |-> PlainText],
                         [role |-> "assistant", content |-> StatusText],
                         [role |-> "assistant", content |-> PlainText]}, MaxBatch)}

\* classify_batch_async is called: an empty batch returns at once
ClassifyCall ==
    /\ call.op = "none"
    /\ call' = IF ctx = <<>>
               THEN [op |-> "classified", types |-> <<>>, calls |-> 0, failed |-> 0,
                     fallback |-> FALSE, raised |-> FALSE,
                     accepted |-> [kind |-> "prose", items |-> <<>>]]
               ELSE [op |-> "classifying", attempt |-> 1]
    /\ UNCHANGED <<ctx, now, cm, nextMsg, passes>>
    /\ UNCHANGED notCtx

\* One pass of the retry loop: the remote call, _parse_response, and either
\* the return of the types, the next attempt, or after the last attempt the
\* rule-based types
ClassifyAttempt(response) ==
    /\ call.op = "classifying"
    /\ LET parsed == ParseResponse(response, Len(ctx))
           ok == /\ response.kind # "raises"
                 /\ ~parsed.raised
                 /\ parsed.types # None
                 /\ parsed.types[1] # <<>>
       IN call' =
            IF ok
            THEN [op |-> "classified", types |-> parsed.types[1],
                  calls |-> call.attempt, failed |-> call.attempt - 1,
                  fallback |-> FALSE, raised |-> FALSE, accepted |-> response]
            ELSE IF call.attempt < CLASSIFY_MAX_RETRIES
            THEN [op |-> "classifying", attempt |-> call.attempt + 1]
            ELSE [op |-> "classified",
                  types |-> [i \in 1..Len(ctx) |-> ClassifyByRules(ctx[i])],
                  calls |-> call.attempt, failed |-> call.attempt,
                  fallback |-> TRUE, raised |-> FALSE, accepted |-> response]
    /\ UNCHANGED <<ctx, now, cm, nextMsg, passes>>
    /\ UNCHANGED notCtx

\* The caller has the types
ClassifyReturn ==
    /\ call.op = "classified"
    /\ call' = [op |-> "none"]
    /\ UNCHANGED <<ctx, now, cm, nextMsg, passes>>
    /\ UNCHANGED notCtx

InitClassify ==
    /\ ArchIdle
    /\ HistIdle
    /\ RestIdle
    /\ ctx \in Batches
    /\ now = 0
    /\ cm = NewManager(DEFAULT_MAX_TOKENS, DEFAULT_THRESHOLD_RATIO)
    /\ nextMsg = 1
    /\ passes = 0
    /\ call = [op |-> "none"]

NextClassify ==
    \/ ClassifyCall
    \/ \E response \in Responses : ClassifyAttempt(response)
    \/ ClassifyReturn

SpecClassify == InitClassify /\ [][NextClassify]_vars

\* A reply of the shape the classifier asks for: an array of objects that
\* each carry an index and a type name
WellShaped(response) ==
    /\ response.kind = "array"
    /\ \A k \in 1..Len(response.items) :
          /\ response.items[k].shape = "object"
          /\ response.items[k].type # "<number>"

\* The types are in input order: message i has the type a reply gives for
\* index i - 1 (normal when it gives none), or its rule-based type
InInputOrder ==
    \A i \in 1..Len(ctx) :
        IF call.fallback THEN call.types[i] = ClassifyByRules(ctx[i])
        ELSE LET given == {TypeOfString(call.accepted.items[k].type) :
                             k \in {j \in 1..Len(call.accepted.items) :
                                      /\ Read(call.accepted.items[j])
                                      /\ call.accepted.items[j].index = i - 1}}
             IN IF given = {} THEN call.types[i] = "normal" ELSE call.types[i] \in given

\* N types in input order, at most three calls, the rules only after three
\* failed attempts, no exception
ClassifierReturnsNTypes ==
    call.op = "classified"
        => /\ Len(call.types) = Len(ctx)
           /\ InInputOrder
           /\ call.calls <= 3
           /\ call.fallback => call.failed = 3
           /\ ~call.raised

\* C27: for N messages the classifier returns N types in input order on every
\* path, makes at most 3 remote calls, treats an unparsable or wrongly shaped
\* response like a call failure (the types it returns without the rules are
\* those of a well-shaped reply), falls back to the rules only after all 3
\* attempts failed, and never raises.
ClassifierContract ==
    /\ ClassifierReturnsNTypes
    /\ (call.op = "classified" /\ ~call.fallback /\ ctx # <<>>) => WellShaped(call.accepted)

-----------------------------------------------------------------------------
(* ValueScorer.score_messages on two messages of one age, at two reference
   times *)

\* Bound: the days that pass
MaxAge == 20

\* Two messages created together, of any two types
TypedPairs ==
    {[i \in 1..2 |-> [RowMessage(i, "assistant", PlainText, 0)
                        EXCEPT !.message_type = types[i]]] :
        types \in [1..2 -> MessageTypes]}

\* A day passes
ScoreWait ==
    /\ now < MaxAge
    /\ now' = now + 1
    /\ UNCHANGED <<ctx, cm, nextMsg, passes, call>>
    /\ UNCHANGED notCtx

\* score_messages(messages, reference_time = now); the scores of the first
\* call are kept beside those of the latest
ScoreCall ==
    /\ \E scored \in {ScoreMessages(ctx, now)} :
         LET this == [at |-> now, scores |-> [i \in 1..2 |-> ScoreOf(scored[i])]]
         IN call' = [op |-> "scored",
                     first |-> IF call.op = "scored" THEN call.first ELSE this,
                     last |-> this]
    /\ UNCHANGED <<ctx, now, cm, nextMsg, passes>>
    /\ UNCHANGED notCtx

InitScore ==
    /\ ArchIdle
    /\ HistIdle
    /\ RestIdle
    /\ ctx \in TypedPairs
    /\ now = 0
    /\ cm = NewManager(DEFAULT_MAX_TOKENS, DEFAULT_THRESHOLD_RATIO)
    /\ nextMsg = 1
    /\ passes = 0
    /\ call = [op |-> "none"]

NextScore == ScoreWait \/ ScoreCall

SpecScore == InitScore /\ [][NextScore]_vars

\* A later reference time never gives a higher score, and a user-typed
\* message never scores below a reasoning-typed one of its age
ValueNeverIncreases ==
    call.op = "scored"
        => /\ \A i \in 1..2 : call.first.scores[i] >= call.last.scores[i]
           /\ \A i, j \in 1..2 :
                 (ctx[i].message_type = "user" /\ ctx[j].message_type = "reasoning")
                     => call.last.scores[i] >= call.last.scores[j]

\* C28: for a fixed message type the value score at elapsed time e1 is
\* strictly greater than at e2 whenever 0 <= e1 < e2, and for equal timestamps
\* a user-typed message scores strictly higher than a reasoning-typed one.
ValueStrictlyDecreasing ==
    call.op = "scored"
        => /\ call.first.at < call.last.at
                 => \A i \in 1..2 : call.first.scores[i] > call.last.scores[i]
           /\ \A i, j \in 1..2 :
                 (ctx[i].message_type = "user" /\ ctx[j].message_type = "reasoning")
                     => call.last.scores[i] > call.last.scores[j]

-----------------------------------------------------------------------------
(* ContextManager.count_messages_tokens on a list that grows *)

\* Bound: the length of the list
MaxCounted == 3

\* The messages counted: no content, a short or a longer content, and no
\* sender name, a member's name or the name of a summary
CountedShapes ==
    {[content |-> c, sender_name |-> n] :
        c \in {EmptyText, PlainText, StatusText}, n \in {"", "Bot", SummaryName}}

\* A message is appended to the list and the list is counted before and after
CountAppend(shape) ==
    /\ Len(ctx) < MaxCounted
    /\ LET m == [RowMessage(Len(ctx) + 1, "assistant", shape.content, 0)
                   EXCEPT !.sender_name = shape.sender_name]
       IN /\ ctx' = Append(ctx, m)
          /\ call' = [op |-> "counted", appended |-> m,
                      before |-> CountMessagesTokens(ctx),
                      after |-> CountMessagesTokens(Append(ctx, m))]
    /\ UNCHANGED <<now, cm, nextMsg, passes>>
    /\ UNCHANGED notCtx

InitCount ==
    /\ ArchIdle
    /\ HistIdle
    /\ RestIdle
    /\ CtxIdle

NextCount == \E shape \in CountedShapes : CountAppend(shape)

SpecCount == InitCount /\ [][NextCount]_vars

\* C29: for every list L and every message m with non-empty content, the
\* estimated token count of L with m appended is at least that of L.
AppendNeverLowersCount ==
    (call.op = "counted" /\ call.appended.content # EmptyText)
        => call.after >= call.before

\* A message with content was appended to a list that counted more than it
AppendNeverLowersWitness ==
    /\ call.op = "counted"
    /\ call.appended.content = PlainText
    /\ call.appended.sender_name = ""
    /\ call.before > 5
    /\ call.after = call.before + 5

\* The rows a step writes: inserted, or updated by an upsert
Written == {r \in memories' : r \notin memories}

\* A row as _prepare_memories shapes it for the conversation it was given
PreparedFor(r, group) ==
    /\ ScopeEnabled(group, r.scope)
    /\ r.scope = "agent_local"
          => /\ r.member_id # NULL
             /\ \E i \in 1..Len(group.members) :
                   /\ group.members[i].id = r.member_id
                   /\ r.persona_version = PersonaVersion(group.members[i])
    /\ r.scope = "user_global" => r.group_id = NULL
    /\ r.expires_at # NULL => r.scope = "group_local"

\* C32: archival never writes a record whose scope is disabled on the
\* conversation; an agent_local record it writes carries a member id and that
\* member's current persona version, a user_global record carries no
\* conversation id, and only group_local records carry an expiry.
ArchiveWritesWithinScope ==
    [][(Written # {} /\ srch' = srch)
          => \A u \in Users, group \in GroupChats, scope \in {"user_global", "group_local", "agent_local"} :
                SearchArchive(u, group, scope) => \A r \in Written : PreparedFor(r, group)]_vars

\* The store holds a member's record and a record of another scope
ArchiveWritesWithinScopeWitness ==
    \E r, q \in memories :
        /\ r.scope = "agent_local"
        /\ r.member_id # NULL
        /\ q.scope \in {"user_global", "group_local"}
        /\ q.member_id = NULL

-----------------------------------------------------------------------------
(* MemoryExtractor.extract on the batch of one archive run *)

\* ARCHIVE_BATCH_LIMIT (300), the transcript window of extract (80) and the
\* window of _fallback_extract (60), scaled to logs of MaxMsgs messages
ExamineLimit == 3
ExamineLlmWindow == 2
ExamineFallbackWindow == 1

\* messages[-n:]
LastN(s, n) == IF Len(s) <= n THEN s ELSE SubSeq(s, Len(s) - n + 1, Len(s))

\* extract: the transcript handed to the remote extractor is built from the
\* last llm_window messages; when it yields nothing the rules read the last
\* fallback_window messages.  examined holds the messages either of them read.
ExtractWithin(batch, llm_window, fallback_window, llm_ok) ==
    IF batch = <<>> THEN [examined |-> <<>>, extracted |-> <<>>]
    ELSE IF llm_ok /\ Extract(LastN(batch, llm_window)) # <<>>
         THEN [examined |-> LastN(batch, llm_window),
               extracted |-> Extract(LastN(batch, llm_window))]
         ELSE [examined |-> LastN(batch, llm_window),
               extracted |-> Extract(LastN(batch, fallback_window))]

\* archive_incremental from the fetch to the checkpoint, with statements that
\* succeed: the raw messages of the fetched batch are handed to extract and the
\* checkpoint is written for the last of them
ExamineRun(llm_ok) ==
    /\ LET fetched == MessagesSinceCursor(messages, checkpoint, ExamineLimit)
           raw_messages == SelectSeq(fetched, LAMBDA m : ~m.is_compressed)
           res == ExtractWithin(raw_messages, ExamineLlmWindow,
                                ExamineFallbackWindow, llm_ok)
       IN /\ raw_messages # <<>>
          /\ call' = [op |-> "archived", raw_messages |-> raw_messages,
                      llm_ok |-> llm_ok, examined |-> res.examined,
                      extracted |-> res.extracted,
                      last_msg |-> raw_messages[Len(raw_messages)]]
          /\ checkpoint' = CheckpointAfter([batch |-> raw_messages])
    /\ UNCHANGED <<messages, clock, memories, dead_letters, audit, proc, nextUuid,
                   dbFaults, archived>>
    /\ UNCHANGED <<ctx, now, cm, nextMsg, passes>>
    /\ UNCHANGED <<histVars, turn, retr, srch>>

NextExamine ==
    \/ SaveMessage
    \/ \E i \in 1..MaxMsgs : UpdateCompression(i)
    \/ \E llm_ok \in BOOLEAN : ExamineRun(llm_ok)

SpecExamine == InitArchive /\ [][NextExamine]_vars

\* C36: every raw message that a successful archive run moves the checkpoint
\* past was in the transcript the extractor examined in that run, on the remote
\* path and on the rule fallback; no message of a batch is passed over.
ArchivedMessagesExamined ==
    call.op = "archived"
        => \A m \in RangeOf(call.raw_messages) :
              AtOrBeforeCheckpoint(m) => m \in RangeOf(call.examined)

\* The same for runs whose batch fits the transcript window
SmallBatchesExamined ==
    (call.op = "archived" /\ Len(call.raw_messages) <= ExamineLlmWindow)
        => \A m \in RangeOf(call.raw_messages) :
              AtOrBeforeCheckpoint(m) /\ m \in RangeOf(call.examined)

-----------------------------------------------------------------------------
(* History builds that interleave at the awaits of process_async.  In the   *)
(* specifications of this part table and snapshots hold the rows of each    *)
(* conversation and built holds each handler's position and locals.         *)

Convs == {"A", "B"}

\* get_group: the context window and the compression_threshold of each group
ConvSettings(conv) ==
    IF conv = "A" THEN [window |-> 60, compression_threshold |-> 50]
    ELSE [window |-> 60, compression_threshold |-> 80]

\* A handler that builds no history
IdleBuild ==
    [pc |-> "idle", conv |-> "none", exclude_last |-> FALSE, loaded |-> FALSE,
     final |-> <<>>, batch |-> <<>>, todo |-> <<>>, pending |-> <<>>,
     site |-> "none", last_id |-> None, save |-> FALSE, used |-> {},
     saved |-> None, current |-> None, attempt |-> 0]

\* should_compress as the handler calls it: the threshold_tokens of the shared
\* ContextManager at the time of the call is noted in used
Decided(manager, b) == [b EXCEPT !.used = @ \cup {manager.threshold_tokens}]

\* The handler from the loop over messages_to_process up to the next await of
\* process_async, or up to the end of the loop and of the batch left over
RECURSIVE RunToAwait(_, _)
RunToAwait(manager, b) ==
    IF b.todo = <<>>
    THEN IF b.batch = <<>> THEN [b EXCEPT !.pc = "finish"]
         ELSE IF ShouldCompress(manager, b.final \o b.batch)
              THEN [Decided(manager, b) EXCEPT !.pc = "await", !.site = "leftover",
                                               !.pending = b.final \o b.batch,
                                               !.batch = <<>>, !.save = TRUE]
              ELSE [Decided(manager, b) EXCEPT !.pc = "finish",
                                               !.final = b.final \o b.batch,
                                               !.batch = <<>>,
                                               !.save = b.save \/ b.loaded]
    ELSE LET msg == Head(b.todo)
             current_batch == Append(b.batch, msg)
             check_context == b.final \o current_batch
         IN IF ShouldCompress(manager, check_context)
            THEN [Decided(manager, b) EXCEPT !.pc = "await", !.site = "loop",
                                             !.pending = check_context,
                                             !.batch = <<>>, !.todo = Tail(b.todo),
                                             !.last_id = Some(msg.id),
                                             !.save = TRUE]
            ELSE RunToAwait(manager,
                            [Decided(manager, b) EXCEPT !.batch = current_batch,
                                                        !.todo = Tail(b.todo),
                                                        !.last_id = Some(msg.id)])

\* The snapshot row save_snapshot inserts
SnapshotRow(b, at) ==
    [last_message_id |-> b.last_id[1],
     context_content |-> [i \in 1..Len(b.final) |-> MessageDump(b.final[i])],
     token_count |-> CountMessagesTokens(b.final),
     created_at |-> at]

SavesSnapshot(b) == b.pc = "finish" /\ b.save /\ b.last_id # None /\ b.final # <<>>

\* The handler returns: the snapshot it inserted, if any, is noted in saved
BuildReturned(b, at) ==
    IF b.pc # "finish" THEN b
    ELSE [b EXCEPT !.pc = "done",
                   !.saved = IF SavesSnapshot(b) THEN Some(SnapshotRow(b, at))
                             ELSE None]

\* What a step of handler h that leaves it as b1 does to the tables, the
\* database clock standing at at
BuildEffect(h, b1, at) ==
    /\ built' = [built EXCEPT ![h] = BuildReturned(b1, at + 1)]
    /\ IF SavesSnapshot(b1)
       THEN /\ snapshots' = [snapshots EXCEPT
                               ![b1.conv] = Append(@, SnapshotRow(b1, at + 1))]
            /\ now' = at + 1
       ELSE /\ snapshots' = snapshots
            /\ now' = at

\* _get_history_as_autogen_messages from its first line to its first await:
\* the settings of the group are written into the shared ContextManager, the
\* latest snapshot and the messages after it are read, and the snapshot is
\* compressed again when it is over the threshold
BuildStarted(manager, tbl, conv, exclude_last, current, attempt) ==
    LET snaps == snapshots[conv]
        snapshot == IF snaps = <<>> THEN None
                    ELSE Some(CHOOSE x \in LatestSnapshots(snaps) : TRUE)
        loaded == snapshot # None
        final0 == IF loaded
                  THEN [i \in 1..Len(snapshot[1].context_content) |->
                           MessageValidate(snapshot[1].context_content[i])]
                  ELSE <<>>
        b0 == [IdleBuild EXCEPT
                 !.pc = "loop", !.conv = conv, !.exclude_last = exclude_last,
                 !.loaded = loaded, !.final = final0,
                 !.todo = MessagesToProcess(tbl, snapshot, loaded,
                                            exclude_last),
                 !.last_id = IF loaded THEN Some(snapshot[1].last_message_id)
                             ELSE None,
                 !.current = current, !.attempt = attempt]
    IN IF ShouldCompress(manager, final0)
       THEN [Decided(manager, b0) EXCEPT !.pc = "await", !.site = "preload",
                                         !.pending = final0, !.save = TRUE]
       ELSE RunToAwait(manager, Decided(manager, b0))

\* get_context_stats: a history build without exclude_last
StatsBegin(h, conv, max_builds) ==
    /\ built[h].pc \in {"idle", "done"}
    /\ builds < max_builds
    /\ builds' = builds + 1
    /\ cm' = ManagerFor(ConvSettings(conv))
    /\ BuildEffect(h, BuildStarted(ManagerFor(ConvSettings(conv)), table[conv],
                                   conv, FALSE, None, 0), now)
    /\ UNCHANGED <<table, settings>>
    /\ UNCHANGED notHist

\* process_async returns to the handler, which goes on with the thresholds the
\* shared ContextManager holds by now
BuildResume(h, outcome) ==
    /\ built[h].pc = "await"
    /\ LET b == built[h]
           final == Process(cm, b.pending, TRUE, now, "unparsed", outcome)
           b1 == [b EXCEPT !.final = final, !.pending = <<>>, !.pc = "loop"]
       IN BuildEffect(h, IF b.site = "leftover" THEN [b1 EXCEPT !.pc = "finish"]
                         ELSE RunToAwait(cm, b1), now)
    /\ UNCHANGED <<table, settings, builds, cm>>
    /\ UNCHANGED notHist

\* PUT /groups/{group_id}/context/threshold: the ratio is written into the
\* shared ContextManager
SetCompressionThreshold(ratio) ==
    /\ cm.threshold_ratio # ratio
    /\ cm' = NewManager(cm.max_tokens, ratio)
    /\ UNCHANGED <<table, snapshots, settings, builds, built, now>>
    /\ UNCHANGED notHist

\* MessageDAO.save for a conversation, at a timestamp of its own
ConvSave(conv, limit) ==
    /\ Len(table[conv]) < limit
    /\ LET k == Len(table[conv]) + 1
       IN table' = [table EXCEPT
                      ![conv] = Append(@, RowMessage(k, RoleOf(k),
                                                     IF RoleOf(k) = "user"
                                                     THEN PlainText ELSE StatusText,
                                                     now + 1))]
    /\ now' = now + 1
    /\ UNCHANGED <<snapshots, settings, builds, built, cm>>
    /\ UNCHANGED notHist

\* Two conversations, a handler for each, and one ContextManager
MaxShared == 4

InitShared ==
    /\ ArchIdle
    /\ RestIdle
    /\ ctx = <<>>
    /\ now = 0
    /\ cm = NewManager(DEFAULT_MAX_TOKENS, DEFAULT_THRESHOLD_RATIO)
    /\ nextMsg = 1
    /\ passes = 0
    /\ call = [op |-> "none"]
    /\ table = [c \in Convs |-> <<>>]
    /\ snapshots = [c \in Convs |-> <<>>]
    /\ settings = [window |-> DEFAULT_MAX_TOKENS,
                   compression_threshold |-> DEFAULT_THRESHOLD_RATIO]
    /\ builds = 0
    /\ built = [h \in Convs |-> IdleBuild]

NextShared ==
    \/ ConvSave("A", MaxShared)
    \/ ConvSave("B", 1)
    \/ \E conv \in Convs : StatsBegin(conv, conv, MaxBuilds)
    \/ \E h \in Convs, outcome \in BuildOutcomes : BuildResume(h, outcome)
    \/ \E ratio \in {50, 80} : SetCompressionThreshold(ratio)

SpecShared == InitShared /\ [][NextShared]_vars

\* int(min_context_window * compression_threshold) of the conversation
OwnThreshold(conv) == ManagerFor(ConvSettings(conv)).threshold_tokens

\* C37: throughout one history build for a conversation every should_compress
\* decision uses the conversation's own threshold, also when history builds or
\* threshold updates for other conversations interleave at the awaits.
DecisionsUseOwnThreshold ==
    \A h \in Convs :
        built[h].pc # "idle" => built[h].used \subseteq {OwnThreshold(built[h].conv)}

\* The same for a build that no other handler and no threshold update interleaves
\* with: the decisions made before the first await
FirstDecisionsUseOwnThreshold ==
    [][\A conv \in Convs :
          StatsBegin(conv, conv, MaxBuilds) => built'[conv].used = {OwnThreshold(conv)}]_vars

-----------------------------------------------------------------------------
(* stream_discussion and get_context_stats on one conversation *)

MaxExclude == 5
MaxExcludeBuilds == 4

Handlers == {"turn", "stats"}

\* stream_discussion: the user's message is saved and the first attempt builds
\* the history with exclude_last; nothing is awaited in between
StreamBegin ==
    /\ built["turn"].pc = "idle"
    /\ Len(table["A"]) < MaxExclude
    /\ builds < MaxExcludeBuilds
    /\ builds' = builds + 1
    /\ LET k == Len(table["A"]) + 1
           m == RowMessage(k, "user", PlainText, now + 1)
           tbl == Append(table["A"], m)
       IN /\ table' = [table EXCEPT !["A"] = tbl]
          /\ cm' = ManagerFor(ConvSettings("A"))
          /\ BuildEffect("turn",
                         BuildStarted(ManagerFor(ConvSettings("A")), tbl, "A", TRUE,
                                      Some(m.id), 0),
                         now + 1)
    /\ UNCHANGED settings
    /\ UNCHANGED notHist

\* The first attempt raised before any reply was saved and a fallback group was
\* built: the second attempt builds the history again, for the same message
StreamRetry ==
    /\ built["turn"].pc = "done"
    /\ built["turn"].attempt = 0
    /\ builds < MaxExcludeBuilds
    /\ builds' = builds + 1
    /\ cm' = ManagerFor(ConvSettings("A"))
    /\ BuildEffect("turn",
                   BuildStarted(ManagerFor(ConvSettings("A")), table["A"], "A", TRUE,
                                built["turn"].current, 1),
                   now)
    /\ UNCHANGED <<table, settings>>
    /\ UNCHANGED notHist

\* An attempt succeeds: the reply is saved and the handler returns
StreamEnd ==
    /\ built["turn"].pc = "done"
    /\ Len(table["A"]) < MaxExclude
    /\ table' = [table EXCEPT
                   !["A"] = Append(@, RowMessage(Len(@) + 1, "assistant", StatusText,
                                                 now + 1))]
    /\ now' = now + 1
    /\ built' = [built EXCEPT !["turn"] = IdleBuild]
    /\ UNCHANGED <<snapshots, settings, builds, cm>>
    /\ UNCHANGED notHist

InitExclude ==
    /\ ArchIdle
    /\ RestIdle
    /\ ctx = <<>>
    /\ now = 0
    /\ cm = NewManager(DEFAULT_MAX_TOKENS, DEFAULT_THRESHOLD_RATIO)
    /\ nextMsg = 1
    /\ passes = 0
    /\ call = [op |-> "none"]
    /\ table = [c \in {"A"} |-> <<>>]
    /\ snapshots = [c \in {"A"} |-> <<>>]
    /\ settings = [window |-> DEFAULT_MAX_TOKENS,
                   compression_threshold |-> DEFAULT_THRESHOLD_RATIO]
    /\ builds = 0
    /\ built = [h \in Handlers |-> IdleBuild]

NextExclude ==
    \/ StreamBegin
    \/ StreamRetry
    \/ StreamEnd
    \/ StatsBegin("stats", "A", MaxExcludeBuilds)
    \/ \E h \in Handlers, outcome \in BuildOutcomes : BuildResume(h, outcome)

SpecExclude == InitExclude /\ [][NextExclude]_vars

IdsOf(msgs) == {msgs[i].id : i \in 1..Len(msgs)}

\* C38: in a history build with exclude_last the current turn's user message is
\* neither in the returned context nor folded into the snapshot the build
\* persists, in every interleaving with context-stats builds and with a retried
\* attempt of the same turn.
CurrentMessageExcluded ==
    LET b == built["turn"]
    IN (b.pc = "done" /\ b.exclude_last)
          => /\ b.current[1] \notin IdsOf(b.final)
             /\ b.saved # None
                   => /\ b.saved[1].last_message_id # b.current[1]
                      /\ b.current[1] \notin IdsOf(b.saved[1].context_content)

\* The same for a turn whose conversation no other build has read since the
\* message was saved
CurrentMessageExcludedAlone ==
    LET b == built["turn"]
    IN (b.pc = "done" /\ b.exclude_last /\ built["stats"].pc = "idle")
          => /\ b.current[1] \notin IdsOf(b.final)
             /\ b.saved # None
                   => /\ b.saved[1].last_message_id # b.current[1]
                      /\ b.current[1] \notin IdsOf(b.saved[1].context_content)

-----------------------------------------------------------------------------
(* The registry of active discussions.  In the specification of this part   *)
(* turn holds the registry, the streams and what stop_discussion returned.  *)

MaxStreams == 3

Streams == 1..MaxStreams

StopGroups == {"g1", "g2"}

\* A stream_discussion call that has not registered yet
IdleStream == [pc |-> "idle", group |-> "none", is_set |-> FALSE, order |-> 0]

\* The termination the registry holds for a group, or None
ActiveOf(t, g) == t.active_discussions[g]

\* _clear_active_discussion that pops the entry of the group whoever owns it
ClearAnyDiscussion(s) ==
    /\ turn.streams[s].pc = "running"
    /\ turn' = [turn EXCEPT
                  !.streams[s].pc = "finished",
                  !.active_discussions[turn.streams[s].group] = None,
                  !.last = [op |-> "clear"]]
    /\ UNCHANGED notTurn

\* _register_active_discussion, under the lock: a previous termination of the
\* group is set and the entry is replaced
RegisterActiveDiscussion(s, g) ==
    /\ turn.streams[s].pc = "idle"
    /\ LET previous == ActiveOf(turn, g)
       IN turn' = [turn EXCEPT
                     !.streams = [x \in Streams |->
                                    IF x = s
                                    THEN [pc |-> "running", group |-> g,
                                          is_set |-> FALSE,
                                          order |-> turn.registered + 1]
                                    ELSE IF previous # None /\ x = previous[1]
                                    THEN [turn.streams[x] EXCEPT !.is_set = TRUE]
                                    ELSE turn.streams[x]],
                     !.active_discussions[g] = Some(s),
                     !.registered = @ + 1,
                     !.last = [op |-> "register"]]
    /\ UNCHANGED notTurn

\* _clear_active_discussion in the finally clause, under the lock: the entry is
\* popped when it is the stream's own
ClearActiveDiscussion(s) ==
    /\ turn.streams[s].pc = "running"
    /\ LET g == turn.streams[s].group
       IN turn' = [turn EXCEPT
                     !.streams[s].pc = "finished",
                     !.active_discussions[g] =
                         IF ActiveOf(turn, g) = Some(s) THEN None ELSE @,
                     !.last = [op |-> "clear"]]
    /\ UNCHANGED notTurn

\* stop_discussion
StopDiscussion(g) ==
    /\ LET termination == ActiveOf(turn, g)
       IN turn' = IF termination = None
                  THEN [turn EXCEPT !.last = [op |-> "stop", group |-> g,
                                              termination |-> None,
                                              returned |-> FALSE]]
                  ELSE [turn EXCEPT !.streams[termination[1]].is_set = TRUE,
                                    !.last = [op |-> "stop", group |-> g,
                                              termination |-> termination,
                                              returned |-> TRUE]]
    /\ UNCHANGED notTurn

InitStop ==
    /\ ArchIdle
    /\ CtxIdle
    /\ HistIdle
    /\ retr = [op |-> "none"]
    /\ SrchIdle
    /\ turn = [active_discussions |-> [g \in StopGroups |-> None],
               streams |-> [s \in Streams |-> IdleStream],
               registered |-> 0,
               last |-> [op |-> "none"]]

NextStop ==
    \/ \E s \in Streams, g \in StopGroups : RegisterActiveDiscussion(s, g)
    \/ \E s \in Streams : ClearActiveDiscussion(s)
    \/ \E g \in StopGroups : StopDiscussion(g)

SpecStop == InitStop /\ [][NextStop]_vars

\* The streams of group g that have registered and not finished
Unfinished(g) ==
    {s \in Streams : turn.streams[s].pc = "running" /\ turn.streams[s].group = g}

\* The stream of g that registered last, finished or not
RegisteredLast(g, s) ==
    /\ turn.streams[s].group = g
    /\ \A x \in Streams :
          turn.streams[x].group = g => turn.streams[x].order <= turn.streams[s].order

\* C39: a group has at most one active discussion, which is the unfinished one
\* that registered last; a discussion that a later one replaced has been
\* signalled to stop; stop_discussion signals the registered discussion and
\* returns false exactly when none is registered.
StopReachesLatestDiscussion ==
    /\ \A g \in StopGroups :
          ActiveOf(turn, g) # None
              => /\ ActiveOf(turn, g)[1] \in Unfinished(g)
                 /\ RegisteredLast(g, ActiveOf(turn, g)[1])
    /\ \A g \in StopGroups : \A s \in Unfinished(g) :
          ActiveOf(turn, g) # Some(s) => turn.streams[s].is_set
    /\ turn.last.op = "stop"
          => /\ turn.last.returned = (ActiveOf(turn, turn.last.group) # None)
             /\ turn.last.termination = ActiveOf(turn, turn.last.group)
             /\ turn.last.returned
                   => /\ turn.streams[turn.last.termination[1]].is_set
                      /\ \A s \in Unfinished(turn.last.group) :
                            turn.streams[s].order
                                <= turn.streams[turn.last.termination[1]].order

\* stop_discussion has returned true for a group in which two streams overlap,
\* after a third stream of the group has finished
StopReachesLatestDiscussionWitness ==
    /\ turn.last.op = "stop"
    /\ turn.last.returned
    /\ Cardinality(Unfinished(turn.last.group)) = 2
    /\ \E s \in Streams : turn.streams[s].pc = "finished"
                            /\ turn.streams[s].group = turn.last.group

-----------------------------------------------------------------------------
(* The synchronous and the asynchronous variants of compress and process *)

\* ContextCompressor.summarize_messages_async: the summary Message, or None
SummarizeMessagesAsync(msgs, outcome) ==
    IF msgs = <<>> THEN None
    ELSE LET summary_text == IF outcome.raised THEN None ELSE outcome.text
             first_msg == msgs[1]
         IN IF summary_text = None \/ summary_text = Some(EmptyText) THEN None
            ELSE Some([id |-> <<"summary">> \o first_msg.id,
                       role |-> first_msg.role,
                       content |-> summary_text[1],
                       sender_name |-> SummaryName,
                       created_at |-> first_msg.created_at,
                       message_type |-> "status",
                       is_compressed |-> TRUE,
                       value_score |-> Some(HIGH)])

\* compress_async without compressed.sort
CompressAsyncAppended(msgs, keep_recent, outcome) ==
    IF Len(msgs) <= keep_recent THEN msgs
    ELSE LET recent_messages == LastSlice(msgs, keep_recent)
             older_messages == ButLastSlice(msgs, keep_recent)
             high_value == HighValue(older_messages)
             medium_value == MediumValue(older_messages)
             summary == SummarizeMessagesAsync(medium_value, outcome)
             compressed == IF medium_value = <<>> THEN high_value
                           ELSE IF summary # None THEN high_value \o summary
                           ELSE high_value \o medium_value
         IN compressed \o recent_messages

\* ContextCompressor.compress_async
CompressAsync(msgs, keep_recent, outcome) ==
    IF Len(msgs) <= keep_recent THEN msgs
    ELSE LET recent_messages == LastSlice(msgs, keep_recent)
             older_messages == ButLastSlice(msgs, keep_recent)
             high_value == HighValue(older_messages)
             medium_value == MediumValue(older_messages)
             summary == SummarizeMessagesAsync(medium_value, outcome)
             compressed == IF medium_value = <<>> THEN high_value
                           ELSE IF summary # None THEN high_value \o summary
                           ELSE high_value \o medium_value
         IN SortByCreatedAt(compressed) \o recent_messages

\* MessageClassifier.update_message_types_async
UpdateMessageTypesAsync(msgs, reply) ==
    IF msgs = <<>> THEN msgs
    ELSE LET types == ClassifyBatch(msgs, reply)
         IN [i \in 1..Len(msgs) |-> [msgs[i] EXCEPT !.message_type = types[i]]]

\* ContextManager.process_async
ProcessAsync(manager, msgs, force, reference_time, reply, outcome) ==
    IF msgs = <<>> THEN msgs
    ELSE IF ~force /\ ~ShouldCompress(manager, msgs) THEN msgs
    ELSE CompressAsync(ScoreMessages(UpdateMessageTypesAsync(msgs, reply),
                                     reference_time),
                       KEEP_RECENT, outcome)

MaxParity == 3

ParityLists ==
    {ScoredList(f) : f \in UNION {[1..n -> ScoredShapes] : n \in 0..MaxParity}}

\* One list is handed to the four functions, with the same keep_recent, the
\* same reply of the classification model and the same summarizer outcome
ParityCall(force, keep_recent, reply, outcome) ==
    /\ call.op = "none"
    /\ call' = [op |-> "parity", input |-> ctx, force |-> force,
                keep_recent |-> keep_recent, outcome |-> outcome,
                compress |-> Compress(ctx, keep_recent, outcome),
                compress_async |-> CompressAsync(ctx, keep_recent, outcome),
                process |-> Process(cm, ctx, force, now, reply, outcome),
                process_async |-> ProcessAsync(cm, ctx, force, now, reply, outcome),
                compressed |-> ctx # <<>> /\ (force \/ ShouldCompress(cm, ctx))]
    /\ UNCHANGED <<ctx, now, cm, nextMsg, passes>>
    /\ UNCHANGED notCtx

InitParity ==
    /\ ArchIdle
    /\ HistIdle
    /\ RestIdle
    /\ ctx \in ParityLists
    /\ now = 0
    /\ cm \in {NewManager(60, 50), NewManager(DEFAULT_MAX_TOKENS, DEFAULT_THRESHOLD_RATIO)}
    /\ nextMsg = 1
    /\ passes = 0
    /\ call = [op |-> "none"]

NextParity ==
    \E force \in BOOLEAN, keep_recent \in 0..MaxParity, reply \in BuildReplies,
       outcome \in SummarizerOutcomes :
        ParityCall(force, keep_recent, reply, outcome)

SpecParity == InitParity /\ [][NextParity]_vars

=============================================================================
